---- MODULE Spec2Model ----
(***************************************************************************)
(* Source association of the VAST pipeline                                 *)
(* (vast_pipeline/pipeline/association.py, pipeline/pipeline/association.py)*)
(*                                                                         *)
(* Angles are integers in units of 0.01 degree.  Weighted means and        *)
(* squared separations are exact rationals [n, d] with d > 0.  A           *)
(* measurement's uncertainty is carried as its weight 1/uncertainty^2, and *)
(* a separation d2d and a de Ruiter radius dr as their squares.            *)
(***************************************************************************)
EXTENDS Integers, Sequences, FiniteSets, TLC

VARIABLES
    method,       \* config.ASSOCIATION_METHOD
    groups,       \* the skyreg_group labels of images_df
    pc,           \* per group: "start", "loop", "done"
    epoch,        \* per group: number of epochs processed so far
    sources_df,   \* per group: the running frame
    skyc1_srcs,   \* per group: the reference frame
    skyc2_srcs,   \* per group: rows written from the last epoch batch
    temp_srcs,    \* per group: candidate pairs of the last iteration
    srcs_df,      \* per group: the finaliser's source table
    results       \* parallel_association: the merged frame, once merged

vars == <<method, groups, pc, epoch, sources_df, skyc1_srcs, skyc2_srcs,
          temp_srcs, srcs_df, results>>

-----------------------------------------------------------------------------
(* Bounds *)

MaxEpochs == 3
MaxBatch == 2
MaxGroups == 3
MaxParEpochs == 2

(* Model units *)

RaFull == 36000
RaWrapMax == 10
GroupSpacing == 1000
FarSep == 3

(* Association parameters, squared: limit, bw_max and dr_limit *)
Limit2 == 1
BwMax2 == 4
DrLimit2 == 1

Methods == {"basic", "advanced", "deruiter"}

(* what config.ASSOCIATION_METHOD can hold: a method of the code, or any   *)
(* other string                                                            *)
ConfigMethods == Methods \cup {"other"}

-----------------------------------------------------------------------------
(* Exact rationals *)

Rat(n, d) == [n |-> n, d |-> d]
RatLeq(a, b) == a.n * b.d <= b.n * a.d
RatLt(a, b) == a.n * b.d < b.n * a.d
RatEq(a, b) == a.n * b.d = b.n * a.d
Abs(x) == IF x < 0 THEN -x ELSE x
Min2(x, y) == IF x <= y THEN x ELSE y

RECURSIVE Gcd(_, _)
Gcd(a, b) == IF b = 0 THEN a ELSE Gcd(b, a % b)
Norm(n, d) == LET g == Gcd(Abs(n), d) IN Rat(n \div g, d \div g)

(* Sequence helpers *)

RECURSIVE SortedSeq(_)
SortedSeq(S) ==
    IF S = {} THEN <<>>
    ELSE LET m == CHOOSE x \in S : \A y \in S : x <= y
         IN  <<m>> \o SortedSeq(S \ {m})

SeqRange(s) == {s[i] : i \in DOMAIN s}

RECURSIVE SumSeq(_)
SumSeq(s) == IF s = <<>> THEN 0 ELSE Head(s) + SumSeq(Tail(s))

Arange(start, num) == [k \in 1..num |-> start + k - 1]

Sources(df) == {df[i].source : i \in DOMAIN df}
MaxSource(df) == CHOOSE m \in Sources(df) : \A s \in Sources(df) : s <= m
RowsOf(df, s) == SelectSeq(df, LAMBDA r : r.source = s)

-----------------------------------------------------------------------------
(* The measurements a loader can return for an epoch of the first group;   *)
(* the same sky is seen GroupSpacing further east by each next group.      *)

Sky ==
    { [ra |-> 100, dec |-> 0, weight_ew |-> 1, weight_ns |-> 1],
      [ra |-> 101, dec |-> 0, weight_ew |-> 2, weight_ns |-> 1],
      [ra |-> 101, dec |-> 1, weight_ew |-> 1, weight_ns |-> 2] }

(* measurements on both sides of RA 0 and of the wrap threshold of 0.1    *)
(* degrees                                                                 *)
SkyWrap ==
    { [ra |-> RaFull - 1, dec |-> 0, weight_ew |-> 1, weight_ns |-> 1],
      [ra |-> 0, dec |-> 0, weight_ew |-> 1, weight_ns |-> 1],
      [ra |-> RaWrapMax, dec |-> 0, weight_ew |-> 1, weight_ns |-> 1],
      [ra |-> RaWrapMax + 1, dec |-> 0, weight_ew |-> 1, weight_ns |-> 1] }

SkySmall ==
    { [ra |-> 100, dec |-> 0, weight_ew |-> 1, weight_ns |-> 1],
      [ra |-> 101, dec |-> 0, weight_ew |-> 2, weight_ns |-> 1] }

(* the sky and a measurement far from the rest of it *)
SkyFar == Sky \cup { [ra |-> 104, dec |-> 0, weight_ew |-> 1, weight_ns |-> 1] }

(* Batches: 1..MaxBatch distinct measurements (duplicate_limit prunes      *)
(* coincident rows of a batch), in any order.                              *)
Batches(sky) ==
    UNION { { b \in [1..n -> sky] : \A i, j \in 1..n : i # j => b[i] # b[j] }
            : n \in 1..MaxBatch }

Zero == Rat(0, 1)

MeasId(g, e, k) == (g * 10 + e) * 10 + k

(* prep_skysrc_df: the frame of one epoch batch.  ini_df numbers the rows  *)
(* 1..N, otherwise source is the sentinel -1.                              *)
prep_skysrc_df(batch, g, e, ini_df) ==
    [k \in 1..Len(batch) |->
        [id        |-> MeasId(g, e, k),
         image     |-> e,
         epoch     |-> e,
         ra        |-> batch[k].ra + (g - 1) * GroupSpacing,
         dec       |-> batch[k].dec,
         weight_ew |-> batch[k].weight_ew,
         weight_ns |-> batch[k].weight_ns,
         source    |-> IF ini_df THEN k ELSE -1,
         related   |-> <<>>,
         d2d       |-> Zero,
         dr        |-> Zero]]

(* A row of the reference frame: the measurement row it was made from,     *)
(* whose ra, dec and uncertainties the aggregator overwrites.              *)
RefRow(row) ==
    [id             |-> row.id,
     source         |-> row.source,
     ra             |-> Rat(row.ra, 1),
     dec            |-> Rat(row.dec, 1),
     uncertainty_ew |-> row.weight_ew,
     uncertainty_ns |-> row.weight_ns,
     related        |-> row.related]

RefRows(rows) == [k \in 1..Len(rows) |-> RefRow(rows[k])]

-----------------------------------------------------------------------------
(* Geometry *)

(* Squared separation of a reference row and a measurement row; RA         *)
(* differences are taken the short way round.  Separations beyond FarSep   *)
(* are all reported as FarSep: every radius rejects them.                  *)
Sep2(ref, row) ==
    LET rd   == ref.ra.d
        dd   == ref.dec.d
        raw  == Abs(ref.ra.n - row.ra * rd)
        dra  == Min2(raw, RaFull * rd - raw)
        ddec == Abs(ref.dec.n - row.dec * dd)
    IN  IF dra > FarSep * rd \/ ddec > FarSep * dd
        THEN Rat(FarSep * FarSep, 1)
        ELSE Norm(dra * dra * dd * dd + ddec * ddec * rd * rd, rd * rd * dd * dd)

(* mutant: the first reference row is taken as the match *)
match_to_catalog_sky_first(skyc1, row) == {1}

(* SkyCoord.match_to_catalog_sky: the indexes of the nearest reference row *)
(* (more than one when separations tie).                                   *)
match_to_catalog_sky(skyc1, row) ==
    { i \in DOMAIN skyc1 :
        \A k \in DOMAIN skyc1 : RatLeq(Sep2(skyc1[i], row), Sep2(skyc1[k], row)) }

(* get_or_append_list *)
get_or_append_list(obj_in, elem) == obj_in \o <<elem>>

-----------------------------------------------------------------------------
(* pandas helpers *)

(* Series.unique(): the values in order of first appearance *)
RECURSIVE Unique(_)
Unique(s) ==
    IF s = <<>> THEN <<>>
    ELSE <<Head(s)>> \o Unique(SelectSeq(Tail(s), LAMBDA x : x # Head(s)))

(* Series.idxmin() over the index labels sel: the first label at the       *)
(* minimum of key                                                          *)
IdxMin(sel, key) ==
    CHOOSE i \in sel :
        \A k \in sel : /\ RatLeq(key[i], key[k])
                       /\ (RatEq(key[i], key[k]) => i <= k)

(* position of label j among the labels of sel, in index order *)
RankIn(sel, j) == Cardinality({k \in sel : k < j})

-----------------------------------------------------------------------------
(* one_to_many_basic *)

(* mutant: duplicated() with its default keep='first', which leaves the    *)
(* first row of each set of duplicates out                                 *)
duplicated_skyc2_keep_first(skyc2) ==
    { j \in DOMAIN skyc2 :
        /\ skyc2[j].source # -1
        /\ \E k \in DOMAIN skyc2 : k < j /\ skyc2[k].source = skyc2[j].source }

(* labels of the matched rows whose source occurs on another row *)
duplicated_skyc2(skyc2) ==
    { j \in DOMAIN skyc2 :
        /\ skyc2[j].source # -1
        /\ \E k \in DOMAIN skyc2 : k # j /\ skyc2[k].source = skyc2[j].source }

(* the rows other than the winner that are given a new id *)
idx_to_change(sel, min_idx) == sel \ {min_idx}

(* mutant: the first fresh id taken from the row count *)
start_src_id_from_rows(sdf) == Len(sdf) + 1

(* the first fresh id *)
start_src_id(sdf) == MaxSource(sdf) + 1

(* mutant: the past rows of msrc are given the new id, not copied *)
CopySourcesRelabel(sdf, msrc, new_src_ids) ==
    IF new_src_ids = <<>> THEN sdf
    ELSE [k \in DOMAIN sdf |->
             IF sdf[k].source = msrc
             THEN [sdf[k] EXCEPT !.source = Head(new_src_ids)]
             ELSE sdf[k]]

(* the fork: every past row of msrc is copied once per new id *)
RECURSIVE CopySources(_, _, _)
CopySources(sdf, msrc, new_src_ids) ==
    IF new_src_ids = <<>> THEN sdf
    ELSE LET sources_to_copy == RowsOf(sdf, msrc)
             copies == [k \in 1..Len(sources_to_copy) |->
                          [sources_to_copy[k] EXCEPT !.source = Head(new_src_ids)]]
         IN  CopySources(sdf \o copies, msrc, Tail(new_src_ids))

RECURSIVE OneToManyBasicLoop(_, _, _, _)
OneToManyBasicLoop(multi_srcs, dup_df, sdf, skyc2) ==
    IF multi_srcs = <<>> THEN [sources_df |-> sdf, skyc2_srcs |-> skyc2]
    ELSE LET msrc == Head(multi_srcs)
             src_selection == { j \in duplicated_skyc2(dup_df) : dup_df[j].source = msrc }
             min_d2d_idx == IdxMin(src_selection, [j \in DOMAIN dup_df |-> dup_df[j].d2d])
             to_change == idx_to_change(src_selection, min_d2d_idx)
             new_src_ids == Arange(start_src_id(sdf), Cardinality(to_change))
             changed == [j \in DOMAIN skyc2 |->
                 IF j = min_d2d_idx
                 THEN [skyc2[j] EXCEPT !.related = @ \o new_src_ids]
                 ELSE IF j \in to_change
                 THEN [skyc2[j] EXCEPT
                         !.source = new_src_ids[RankIn(to_change, j) + 1],
                         !.related = get_or_append_list(@, msrc)]
                 ELSE skyc2[j]]
         IN  OneToManyBasicLoop(Tail(multi_srcs), dup_df,
                                CopySources(sdf, msrc, new_src_ids), changed)

one_to_many_basic(sdf, skyc2) ==
    LET dup == duplicated_skyc2(skyc2)
        multi_srcs == Unique([k \in 1..Cardinality(dup) |-> skyc2[SortedSeq(dup)[k]].source])
    IN  IF dup = {} THEN [sources_df |-> sdf, skyc2_srcs |-> skyc2]
        ELSE OneToManyBasicLoop(multi_srcs, skyc2, sdf, skyc2)

-----------------------------------------------------------------------------
(* basic_association; idx[j] is the nearest reference row of batch row j   *)

(* mutant: no row of the batch extends the reference frame *)
basic_new_refs_none(skyc2, nan_sel) == <<>>

(* the rows of the batch that extend the reference frame *)
basic_new_refs(skyc2, nan_sel) ==
    [k \in 1..Cardinality(nan_sel) |-> skyc2[SortedSeq(nan_sel)[k]]]

basic_association(sdf, skyc1, skyc2, idx) ==
    LET d2d == [j \in DOMAIN skyc2 |-> Sep2(skyc1[idx[j]], skyc2[j])]
        sel == { j \in DOMAIN skyc2 : RatLeq(d2d[j], Rat(Limit2, 1)) }
        matched == [j \in DOMAIN skyc2 |->
            IF j \in sel
            THEN [skyc2[j] EXCEPT !.source = skyc1[idx[j]].source, !.d2d = d2d[j]]
            ELSE skyc2[j]]
        otm == one_to_many_basic(sdf, matched)
        start_elem == MaxSource(otm.sources_df) + 1
        nan_sel == { j \in DOMAIN skyc2 : otm.skyc2_srcs[j].source = -1 }
        numbered == [j \in DOMAIN skyc2 |->
            IF j \in nan_sel
            THEN [otm.skyc2_srcs[j] EXCEPT !.source = start_elem + RankIn(nan_sel, j)]
            ELSE otm.skyc2_srcs[j]]
        pairs == [k \in 1..Cardinality(sel) |->
            LET j == SortedSeq(sel)[k]
            IN  [index_old_skyc1 |-> idx[j],
                 index_old_skyc2 |-> j,
                 source_skyc1    |-> numbered[j].source,
                 related_skyc1   |-> numbered[j].related,
                 d2d_skyc2       |-> d2d[j],
                 d2d_pair        |-> d2d[j],
                 dr              |-> Zero,
                 matched         |-> skyc1[idx[j]].source]]
    IN  [sources_df |-> otm.sources_df \o numbered,
         skyc1_srcs |-> skyc1 \o RefRows(basic_new_refs(numbered, nan_sel)),
         skyc2_srcs |-> numbered,
         temp_srcs  |-> pairs]

-----------------------------------------------------------------------------
(* calc_de_ruiter: the squared de Ruiter radius of a candidate pair.  Each *)
(* RA is shifted on its own.  The declinations of the model lie within a   *)
(* few hundredths of a degree of the equator, where the cosine factor is 1.*)

ShiftRa(ra) ==
    IF ra.n > 27000 * ra.d THEN Rat(ra.n - 18000 * ra.d, ra.d)
    ELSE IF ra.n < 9000 * ra.d THEN Rat(ra.n + 18000 * ra.d, ra.d)
    ELSE ra

(* mutant: the offsets are divided by the squared uncertainty of the batch *)
(* row alone                                                               *)
calc_de_ruiter_one_sigma(ref, row) ==
    LET ra_1 == ShiftRa(ref.ra)
        ra_2 == ShiftRa(Rat(row.ra, 1))
        dra  == Abs(ra_1.n - ra_2.n * ra_1.d)
        ddec == Abs(ref.dec.n - row.dec * ref.dec.d)
        d1   == ra_1.d * ra_1.d
        d2   == ref.dec.d * ref.dec.d
    IN  Norm(dra * dra * row.weight_ew * d2 + ddec * ddec * row.weight_ns * d1, d1 * d2)

calc_de_ruiter(ref, row) ==
    LET ra_1 == ShiftRa(ref.ra)
        ra_2 == ShiftRa(Rat(row.ra, 1))
        dra  == Abs(ra_1.n - ra_2.n * ra_1.d)
        ddec == Abs(ref.dec.n - row.dec * ref.dec.d)
        \* 1 / (err_1^2 + err_2^2) = w_1 * w_2 / (w_1 + w_2)
        ew_n == ref.uncertainty_ew * row.weight_ew
        ew_d == ref.uncertainty_ew + row.weight_ew
        ns_n == ref.uncertainty_ns * row.weight_ns
        ns_d == ref.uncertainty_ns + row.weight_ns
        d1   == ra_1.d * ra_1.d * ew_d
        d2   == ref.dec.d * ref.dec.d * ns_d
    IN  IF dra > FarSep * ra_1.d \/ ddec > FarSep * ref.dec.d
        THEN Rat(RaFull, 1)
        ELSE Norm(dra * dra * ew_n * d2 + ddec * ddec * ns_n * d1, d1 * d2)

-----------------------------------------------------------------------------
(* The candidate pairs of advanced_association (temp_srcs), in the order   *)
(* of search_around_sky: by reference row, then by batch row.              *)

dist_col(method_, pair) == IF method_ = "advanced" THEN pair.d2d_skyc2 ELSE pair.dr

DistKey(method_, temp) == [k \in DOMAIN temp |-> dist_col(method_, temp[k])]

duplicated_source_skyc1(temp) ==
    { k \in DOMAIN temp : \E l \in DOMAIN temp : l # k /\ temp[l].source_skyc1 = temp[k].source_skyc1 }

duplicated_index_old_skyc2(temp) ==
    { k \in DOMAIN temp : \E l \in DOMAIN temp : l # k /\ temp[l].index_old_skyc2 = temp[k].index_old_skyc2 }

(* many_to_many_advanced *)
many_to_many_advanced(temp, method_) ==
    LET m_to_m == duplicated_index_old_skyc2(temp) \cap duplicated_source_skyc1(temp)
        key == DistKey(method_, temp)
        IsMin(k) == \A l \in m_to_m :
                       temp[l].index_old_skyc2 = temp[k].index_old_skyc2
                           => RatLeq(key[k], key[l])
        m_to_m_to_drop == { k \in m_to_m : ~IsMin(k) }
    IN  [k \in 1..(Len(temp) - Cardinality(m_to_m_to_drop)) |->
            temp[SortedSeq(DOMAIN temp \ m_to_m_to_drop)[k]]]

(* one_to_many_advanced *)
RECURSIVE OneToManyAdvancedLoop(_, _, _, _, _)
OneToManyAdvancedLoop(multi_srcs, dup_df, temp, sdf, method_) ==
    IF multi_srcs = <<>> THEN [temp_srcs |-> temp, sources_df |-> sdf]
    ELSE LET msrc == Head(multi_srcs)
             src_selection == { k \in duplicated_source_skyc1(dup_df) :
                                   dup_df[k].source_skyc1 = msrc }
             min_dist_idx == IdxMin(src_selection, DistKey(method_, dup_df))
             to_change == idx_to_change(src_selection, min_dist_idx)
             new_src_ids == Arange(start_src_id(sdf), Cardinality(to_change))
             changed == [k \in DOMAIN temp |->
                 IF k = min_dist_idx
                 THEN [temp[k] EXCEPT !.related_skyc1 = @ \o new_src_ids]
                 ELSE IF k \in to_change
                 THEN [temp[k] EXCEPT
                         !.source_skyc1 = new_src_ids[RankIn(to_change, k) + 1],
                         !.related_skyc1 = get_or_append_list(@, msrc)]
                 ELSE temp[k]]
         IN  OneToManyAdvancedLoop(Tail(multi_srcs), dup_df, changed,
                                   CopySources(sdf, msrc, new_src_ids), method_)

one_to_many_advanced(temp, sdf, method_) ==
    LET dup == duplicated_source_skyc1(temp)
        multi_srcs == Unique([k \in 1..Cardinality(dup) |-> temp[SortedSeq(dup)[k]].source_skyc1])
    IN  IF dup = {} THEN [temp_srcs |-> temp, sources_df |-> sdf]
        ELSE OneToManyAdvancedLoop(multi_srcs, temp, temp, sdf, method_)

(* mutant: the siblings are taken under the identity they were matched    *)
(* with, before the one-to-many step                                       *)
many_to_one_related_matched(temp, k) ==
    LET others == SortedSeq({ l \in DOMAIN temp :
                       l # k /\ temp[l].index_old_skyc2 = temp[k].index_old_skyc2 })
    IN  [n \in 1..Len(others) |-> temp[others[n]].matched]

(* many_to_one_advanced: the pairs of one batch row absorb each other's    *)
(* identity                                                                *)
many_to_one_related(temp, k) ==
    LET others == SortedSeq({ l \in DOMAIN temp :
                       l # k /\ temp[l].index_old_skyc2 = temp[k].index_old_skyc2 })
    IN  [n \in 1..Len(others) |-> temp[others[n]].source_skyc1]

many_to_one_advanced(temp) ==
    [k \in DOMAIN temp |->
        IF k \in duplicated_index_old_skyc2(temp)
        THEN [temp[k] EXCEPT !.related_skyc1 = @ \o many_to_one_related(temp, k)]
        ELSE temp[k]]

-----------------------------------------------------------------------------
(* advanced_association *)

bw_max2(method_) == IF method_ = "deruiter" THEN BwMax2 ELSE Limit2

(* mutant: every (i, j) is a candidate, whatever the separation *)
search_around_sky_all_pairs(skyc1, skyc2, method_) ==
    (DOMAIN skyc1) \X (DOMAIN skyc2)

(* search_around_sky and the beamwidth cut: the (i, j) within bw_max *)
search_around_sky(skyc1, skyc2, method_) ==
    { p \in (DOMAIN skyc1) \X (DOMAIN skyc2) :
        RatLeq(Sep2(skyc1[p[1]], skyc2[p[2]]), Rat(bw_max2(method_), 1)) }

RECURSIVE PairSeq(_)
PairSeq(P) ==
    IF P = {} THEN <<>>
    ELSE LET m == CHOOSE x \in P : \A y \in P :
                      x[1] < y[1] \/ (x[1] = y[1] /\ x[2] <= y[2])
         IN  <<m>> \o PairSeq(P \ {m})

(* skyc2_srcs.loc[idx_skyc2[sel], 'd2d'] = d2d[sel]: one d2d per batch row, *)
(* the one written last                                                    *)
skyc2_d2d(skyc1, skyc2, P, j) ==
    LET mine == { p \in P : p[2] = j }
        last == CHOOSE p \in mine : \A q \in mine : q[1] <= p[1]
    IN  IF mine = {} THEN skyc2[j].d2d ELSE Sep2(skyc1[last[1]], skyc2[j])

(* mutant: every appended row is appended to the reference frame *)
forked_refs_all(toappend, skyc1) == toappend

(* the reference rows appended for identities minted by a fork *)
forked_refs(toappend, skyc1) ==
    SelectSeq(toappend, LAMBDA r : r.source \notin Sources(skyc1))

(* the batch with the separation written at line 418 *)
skyc2_srcs_d2d(skyc1, skyc2, P) ==
    [j \in DOMAIN skyc2 |-> [skyc2[j] EXCEPT !.d2d = skyc2_d2d(skyc1, skyc2, P, j)]]

(* temp_srcs as merged from the candidate pairs, after the de Ruiter cut *)
advanced_temp_srcs(method_, skyc1, skyc2, cand, dr_limit2) ==
    LET merged == [k \in DOMAIN cand |->
                      [index_old_skyc1 |-> cand[k][1],
                       index_old_skyc2 |-> cand[k][2],
                       source_skyc1    |-> skyc1[cand[k][1]].source,
                       related_skyc1   |-> skyc1[cand[k][1]].related,
                       d2d_skyc2       |-> skyc2[cand[k][2]].d2d,
                       d2d_pair        |-> Sep2(skyc1[cand[k][1]], skyc2[cand[k][2]]),
                       dr              |-> IF method_ = "deruiter"
                                           THEN calc_de_ruiter(skyc1[cand[k][1]], skyc2[cand[k][2]])
                                           ELSE Zero,
                       matched         |-> skyc1[cand[k][1]].source]]
    IN  SelectSeq(merged, LAMBDA t : method_ = "deruiter" => RatLeq(t.dr, dr_limit2))

(* mutant: the rows without a pair are appended as loaded, under the       *)
(* sentinel, and make no reference row                                     *)
advanced_append_unnumbered(sdf, skyc1, temp, skyc2_srcs_toappend, new_sources) ==
    [sources_df |-> sdf \o skyc2_srcs_toappend
                    \o [n \in DOMAIN new_sources |-> [new_sources[n] EXCEPT !.source = -1]],
     skyc1_srcs |-> skyc1 \o RefRows(forked_refs(skyc2_srcs_toappend, skyc1)),
     skyc2_srcs |-> skyc2_srcs_toappend \o new_sources,
     temp_srcs  |-> temp]

(* mutant: a batch row is appended once, whatever the number of its pairs *)
advanced_append_once(sdf, skyc1, temp, skyc2_srcs_toappend, new_sources) ==
    [sources_df |-> sdf
                    \o [n \in 1..Cardinality({ k \in DOMAIN skyc2_srcs_toappend :
                              \A l \in DOMAIN skyc2_srcs_toappend :
                                  skyc2_srcs_toappend[l].id = skyc2_srcs_toappend[k].id
                                      => k <= l }) |->
                          skyc2_srcs_toappend[SortedSeq({ k \in DOMAIN skyc2_srcs_toappend :
                              \A l \in DOMAIN skyc2_srcs_toappend :
                                  skyc2_srcs_toappend[l].id = skyc2_srcs_toappend[k].id
                                      => k <= l })[n]]]
                    \o new_sources,
     skyc1_srcs |-> (skyc1 \o RefRows(new_sources))
                    \o RefRows(forked_refs(skyc2_srcs_toappend \o new_sources,
                                           skyc1 \o RefRows(new_sources))),
     skyc2_srcs |-> skyc2_srcs_toappend \o new_sources,
     temp_srcs  |-> temp]

(* the frames returned: matched and new rows appended to the running      *)
(* frame, new and forked identities appended to the reference frame       *)
advanced_append(sdf, skyc1, temp, skyc2_srcs_toappend, new_sources) ==
    [sources_df |-> sdf \o skyc2_srcs_toappend \o new_sources,
     skyc1_srcs |-> (skyc1 \o RefRows(new_sources))
                    \o RefRows(forked_refs(skyc2_srcs_toappend \o new_sources,
                                           skyc1 \o RefRows(new_sources))),
     skyc2_srcs |-> skyc2_srcs_toappend \o new_sources,
     temp_srcs  |-> temp]

(* the rows to append, from the resolved pairs temp *)
advanced_toappend(sdf, skyc1, skyc2, temp) ==
    LET skyc2_srcs_toappend == [k \in DOMAIN temp |->
                      [skyc2[temp[k].index_old_skyc2] EXCEPT
                          !.source  = temp[k].source_skyc1,
                          !.related = temp[k].related_skyc1,
                          !.dr      = temp[k].dr]]
        unmatched == (DOMAIN skyc2) \ { temp[k].index_old_skyc2 : k \in DOMAIN temp }
        start_elem == MaxSource(sdf) + 1
        new_sources == [n \in 1..Cardinality(unmatched) |->
                      [skyc2[SortedSeq(unmatched)[n]] EXCEPT !.source = start_elem + n - 1]]
    IN  advanced_append(sdf, skyc1, temp, skyc2_srcs_toappend, new_sources)

(* many-to-one, on the outcome otm of the one-to-many resolution *)
advanced_many_to_one(otm, skyc1, skyc2) ==
    advanced_toappend(otm.sources_df, skyc1, skyc2, many_to_one_advanced(otm.temp_srcs))

(* many-to-many, then one-to-many *)
advanced_resolve(method_, sdf, skyc1, skyc2, temp) ==
    advanced_many_to_one(
        one_to_many_advanced(many_to_many_advanced(temp, method_), sdf, method_),
        skyc1, skyc2)

(* skyc2 carries the separations of line 418 *)
advanced_candidates(method_, sdf, skyc1, skyc2, cand, dr_limit2) ==
    advanced_resolve(method_, sdf, skyc1, skyc2,
                     advanced_temp_srcs(method_, skyc1, skyc2, cand, dr_limit2))

advanced_association(method_, sdf, skyc1, skyc2, dr_limit2) ==
    advanced_candidates(method_, sdf, skyc1,
        skyc2_srcs_d2d(skyc1, skyc2, search_around_sky(skyc1, skyc2, method_)),
        PairSeq(search_around_sky(skyc1, skyc2, method_)), dr_limit2)

-----------------------------------------------------------------------------
(* association: the running aggregator at the end of an iteration *)

ra_wrap(row) == IF row.ra <= RaWrapMax THEN row.ra + RaFull ELSE row.ra

interim_ew(row) == ra_wrap(row) * row.weight_ew
interim_ns(row) == row.dec * row.weight_ns

SumOver(rows, F(_)) == SumSeq([k \in 1..Len(rows) |-> F(rows[k])])

(* tmp_srcs_df: the rows of one identity, the sentinel excluded *)
tmp_srcs_df(sdf, s) == SelectSeq(sdf, LAMBDA r : r.source # -1 /\ r.source = s)

wm_ra(rows) ==
    LET n == SumOver(rows, interim_ew)
        d == SumOver(rows, LAMBDA r : r.weight_ew)
    IN  IF n >= RaFull * d THEN Norm(n - RaFull * d, d) ELSE Norm(n, d)

wm_dec(rows) ==
    Norm(SumOver(rows, interim_ns), SumOver(rows, LAMBDA r : r.weight_ns))

wm_uncertainty_ew(rows) == SumOver(rows, LAMBDA r : r.weight_ew)
wm_uncertainty_ns(rows) == SumOver(rows, LAMBDA r : r.weight_ns)

(* mutant: the reference rows keep their positions and uncertainties *)
weighted_skyc1_stale(skyc1, sdf) == skyc1

(* skyc1_srcs.merge(weighted_df, on='source', how='left') *)
weighted_skyc1(skyc1, sdf) ==
    [i \in DOMAIN skyc1 |->
        LET rows == tmp_srcs_df(sdf, skyc1[i].source)
        IN  [skyc1[i] EXCEPT
                !.ra             = wm_ra(rows),
                !.dec            = wm_dec(rows),
                !.uncertainty_ew = wm_uncertainty_ew(rows),
                !.uncertainty_ns = wm_uncertainty_ns(rows)]]

(* One iteration of the loop of association, for an epoch batch and a      *)
(* choice idx of nearest reference rows.                                   *)
association_iteration(method_, sdf, skyc1, skyc2, idx) ==
    LET r == IF method_ = "basic"
             THEN basic_association(sdf, skyc1, skyc2, idx)
             ELSE advanced_association(method_, sdf, skyc1, skyc2, Rat(DrLimit2, 1))
    IN  [r EXCEPT !.skyc1_srcs = weighted_skyc1(r.skyc1_srcs, r.sources_df)]

NearestChoices(skyc1, skyc2) ==
    { idx \in [DOMAIN skyc2 -> DOMAIN skyc1] :
        \A j \in DOMAIN skyc2 : idx[j] \in match_to_catalog_sky(skyc1, skyc2[j]) }

-----------------------------------------------------------------------------
(* The finaliser: groupby_funcs over the rows of each identity *)

first_img == 1

(* mutant: only the latest row of the identity is looked at *)
groupby_funcs_latest_row(row, first_img_) ==
    [n_meas |-> Len(row),
     new    |-> IF row[Len(row)].image = first_img_ THEN FALSE ELSE TRUE]

(* mutant: not new only when every row is of the first image *)
groupby_funcs_all_rows(row, first_img_) ==
    [n_meas |-> Len(row),
     new    |-> IF \A k \in DOMAIN row : row[k].image = first_img_ THEN FALSE ELSE TRUE]

groupby_funcs(row, first_img_) ==
    [n_meas |-> Len(row),
     new    |-> IF first_img_ \in { row[k].image : k \in DOMAIN row } THEN FALSE ELSE TRUE]

finalise(sdf) ==
    [s \in Sources(sdf) |-> groupby_funcs(RowsOf(sdf, s), first_img)]

-----------------------------------------------------------------------------
(* parallel_association: the merge of the group frames *)

(* mutant: the related lists are left as they were *)
correct_parallel_source_ids_source_only(df, correction) ==
    [k \in DOMAIN df |-> [df[k] EXCEPT !.source = @ + correction]]

correct_parallel_source_ids(df, correction) ==
    [k \in DOMAIN df |->
        [df[k] EXCEPT
            !.source  = @ + correction,
            !.related = [n \in DOMAIN @ |-> @[n] + correction]]]

(* mutant: the offset taken from the row count of the group before *)
max_id_from_rows(res, i) == Len(res[i - 1])

(* the offset of group i: the largest identity of the group before it *)
max_id(res, i) == MaxSource(res[i - 1])

RECURSIVE MergeLoop(_, _)
MergeLoop(rest, res) ==
    IF rest = <<>> THEN [ok |-> TRUE, frames |-> res]
    ELSE LET i == Head(rest)
         IN  IF (i - 1) \notin DOMAIN res
             THEN [ok |-> FALSE]   \* results.loc[i - 1]: KeyError
             ELSE LET corr_df == correct_parallel_source_ids(res[i], max_id(res, i))
                  IN  MergeLoop(Tail(rest), [res EXCEPT ![i] = corr_df])

RECURSIVE ConcatGroups(_, _)
ConcatGroups(indexes, res) ==
    IF indexes = <<>> THEN <<>>
    ELSE LET g == Head(indexes)
         IN  [k \in DOMAIN res[g] |->
                 [skyreg_group |-> g, source |-> res[g][k].source,
                  related |-> res[g][k].related, id |-> res[g][k].id,
                  image |-> res[g][k].image, epoch |-> res[g][k].epoch]]
             \o ConcatGroups(Tail(indexes), res)

parallel_association(frames) ==
    LET indexes == SortedSeq(DOMAIN frames)
        merged  == MergeLoop(Tail(indexes), frames)
    IN  IF merged.ok
        THEN [status |-> "merged", frame |-> ConcatGroups(indexes, merged.frames)]
        ELSE [status |-> "failed"]

-----------------------------------------------------------------------------
(* Actions *)

NoFrame == <<>>
NoResults == [status |-> "none"]

InitGroups(G) ==
    /\ method \in ConfigMethods
    /\ groups = G
    /\ pc = [g \in G |-> "start"]
    /\ epoch = [g \in G |-> 0]
    /\ sources_df = [g \in G |-> NoFrame]
    /\ skyc1_srcs = [g \in G |-> NoFrame]
    /\ skyc2_srcs = [g \in G |-> NoFrame]
    /\ temp_srcs = [g \in G |-> NoFrame]
    /\ srcs_df = [g \in G |-> NoFrame]
    /\ results = NoResults

Init == InitGroups({1})

(* association, up to the loop: the first epoch is the initial reference   *)
(* frame and running frame                                                 *)
StartOn(g, sky) ==
    /\ pc[g] = "start"
    /\ \E batch \in Batches(sky) :
          LET ini == prep_skysrc_df(batch, g, 1, TRUE)
          IN  /\ skyc1_srcs' = [skyc1_srcs EXCEPT ![g] = RefRows(ini)]
              /\ sources_df' = [sources_df EXCEPT ![g] = ini]
    /\ epoch' = [epoch EXCEPT ![g] = 1]
    /\ pc' = [pc EXCEPT ![g] = "loop"]
    /\ UNCHANGED <<method, groups, skyc2_srcs, temp_srcs, srcs_df, results>>

Start(g) == StartOn(g, Sky)

(* one iteration of the loop over unique_epochs[1:] *)
IterateBatches(g, batches) ==
    /\ pc[g] = "loop"
    /\ epoch[g] < MaxEpochs
    /\ method \in Methods
    /\ \E batch \in batches :
          LET skyc2 == prep_skysrc_df(batch, g, epoch[g] + 1, FALSE)
              choices == IF method = "basic"
                         THEN NearestChoices(skyc1_srcs[g], skyc2)
                         ELSE { [j \in DOMAIN skyc2 |-> 1] }
          IN  \E idx \in choices :
                 LET r == association_iteration(method, sources_df[g],
                                                skyc1_srcs[g], skyc2, idx)
                 IN  /\ sources_df' = [sources_df EXCEPT ![g] = r.sources_df]
                     /\ skyc1_srcs' = [skyc1_srcs EXCEPT ![g] = r.skyc1_srcs]
                     /\ skyc2_srcs' = [skyc2_srcs EXCEPT ![g] = r.skyc2_srcs]
                     /\ temp_srcs' = [temp_srcs EXCEPT ![g] = r.temp_srcs]
    /\ epoch' = [epoch EXCEPT ![g] = @ + 1]
    /\ UNCHANGED <<method, groups, pc, srcs_df, results>>

IterateOn(g, sky) == IterateBatches(g, Batches(sky))

Iterate(g) == IterateOn(g, Sky)

(* the end of the loop: the frame is returned and the sources finalised *)
Return(g) ==
    /\ pc[g] = "loop"
    /\ pc' = [pc EXCEPT ![g] = "done"]
    /\ srcs_df' = [srcs_df EXCEPT ![g] = finalise(sources_df[g])]
    /\ UNCHANGED <<method, groups, epoch, sources_df, skyc1_srcs, skyc2_srcs,
                   temp_srcs, results>>

(* an iteration with a method the loop does not know: the batch of the     *)
(* epoch is loaded, then the else branch raises                            *)
Raise(g) ==
    /\ pc[g] = "loop"
    /\ epoch[g] < MaxEpochs
    /\ method \notin Methods
    /\ pc' = [pc EXCEPT ![g] = "failed"]
    /\ UNCHANGED <<method, groups, epoch, sources_df, skyc1_srcs, skyc2_srcs,
                   temp_srcs, srcs_df, results>>

Next ==
    \/ \E g \in groups : Start(g)
    \/ \E g \in groups : Iterate(g)
    \/ \E g \in groups : Raise(g)
    \/ \E g \in groups : Return(g)

Spec == Init /\ [][Next]_vars

-----------------------------------------------------------------------------
(* Parallel association: each sky-region group is associated by its own    *)
(* worker process, which shares nothing with the others; a worker step is  *)
(* the whole call of association for its group.                            *)

AssocState(sdf, skyc1, skyc2, temp) ==
    [sources_df |-> sdf, skyc1_srcs |-> skyc1, skyc2_srcs |-> skyc2, temp_srcs |-> temp]

(* the outcomes of association for the epoch batches bs, the first epoch   *)
(* already loaded in st                                                    *)
RECURSIVE association(_, _, _, _, _)
association(method_, g, e, st, bs) ==
    IF bs = <<>> THEN {st}
    ELSE LET skyc2 == prep_skysrc_df(Head(bs), g, e, FALSE)
             choices == IF method_ = "basic"
                        THEN NearestChoices(st.skyc1_srcs, skyc2)
                        ELSE { [j \in DOMAIN skyc2 |-> 1] }
         IN  UNION { association(method_, g, e + 1,
                         association_iteration(method_, st.sources_df,
                                               st.skyc1_srcs, skyc2, idx),
                         Tail(bs)) : idx \in choices }

EpochBatches(sky, n) == [1..n -> Batches(sky)]

WorkerOn(g, sky) ==
    /\ pc[g] = "start"
    /\ \E n \in 1..MaxParEpochs : \E bs \in EpochBatches(sky, n) :
          /\ (n = 1 \/ method \in Methods)
          /\ LET ini == prep_skysrc_df(bs[1], g, 1, TRUE)
                 st0 == AssocState(ini, RefRows(ini), NoFrame, NoFrame)
             IN  \E st \in association(method, g, 2, st0, Tail(bs)) :
                    /\ sources_df' = [sources_df EXCEPT ![g] = st.sources_df]
                    /\ skyc1_srcs' = [skyc1_srcs EXCEPT ![g] = st.skyc1_srcs]
                    /\ skyc2_srcs' = [skyc2_srcs EXCEPT ![g] = st.skyc2_srcs]
                    /\ temp_srcs' = [temp_srcs EXCEPT ![g] = st.temp_srcs]
                    /\ epoch' = [epoch EXCEPT ![g] = n]
    /\ pc' = [pc EXCEPT ![g] = "done"]
    /\ UNCHANGED <<method, groups, srcs_df, results>>

(* mutant: the workers draw their identities from one shared counter, so   *)
(* a group's frame depends on the groups that finished before it           *)
WorkerSharedCounter(g) ==
    /\ pc[g] = "start"
    /\ \E n \in 1..MaxParEpochs : \E bs \in EpochBatches(SkySmall, n) :
          /\ (n = 1 \/ method \in Methods)
          /\ LET ini == prep_skysrc_df(bs[1], g, 1, TRUE)
                 st0 == AssocState(ini, RefRows(ini), NoFrame, NoFrame)
                 taken == SumSeq([h \in 1..Cardinality(groups) |->
                             IF pc[h] = "done" THEN MaxSource(sources_df[h]) ELSE 0])
             IN  \E st \in association(method, g, 2, st0, Tail(bs)) :
                    /\ sources_df' = [sources_df EXCEPT
                           ![g] = correct_parallel_source_ids(st.sources_df, taken)]
                    /\ skyc1_srcs' = [skyc1_srcs EXCEPT ![g] = st.skyc1_srcs]
                    /\ skyc2_srcs' = [skyc2_srcs EXCEPT ![g] = st.skyc2_srcs]
                    /\ temp_srcs' = [temp_srcs EXCEPT ![g] = st.temp_srcs]
                    /\ epoch' = [epoch EXCEPT ![g] = n]
    /\ pc' = [pc EXCEPT ![g] = "done"]
    /\ UNCHANGED <<method, groups, srcs_df, results>>

Worker(g) == WorkerOn(g, SkySmall)

(* mutant: the driver merges the groups that returned and leaves the       *)
(* failed ones out                                                         *)
MergeReturnedGroups ==
    /\ results = NoResults
    /\ \A g \in groups : pc[g] \in {"done", "failed"}
    /\ \E g \in groups : pc[g] = "done"
    /\ results' = parallel_association(
                      [g \in { h \in groups : pc[h] = "done" } |-> sources_df[g]])
    /\ UNCHANGED <<method, groups, pc, epoch, sources_df, skyc1_srcs, skyc2_srcs,
                   temp_srcs, srcs_df>>

(* the driver: every group has returned; the frames are merged *)
Merge ==
    /\ results = NoResults
    /\ \A g \in groups : pc[g] = "done"
    /\ results' = parallel_association(sources_df)
    /\ UNCHANGED <<method, groups, pc, epoch, sources_df, skyc1_srcs, skyc2_srcs,
                   temp_srcs, srcs_df>>

(* the worker of a group of two or more epochs under a method the loop    *)
(* does not know: association raises in its first iteration and the       *)
(* worker returns nothing                                                  *)
WorkerRaise(g) ==
    /\ pc[g] = "start"
    /\ method \notin Methods
    /\ pc' = [pc EXCEPT ![g] = "failed"]
    /\ UNCHANGED <<method, groups, epoch, sources_df, skyc1_srcs, skyc2_srcs,
                   temp_srcs, srcs_df, results>>

(* the driver: compute() re-raises the exception of a worker *)
Abort ==
    /\ results = NoResults
    /\ \E g \in groups : pc[g] = "failed"
    /\ results' = [status |-> "failed"]
    /\ UNCHANGED <<method, groups, pc, epoch, sources_df, skyc1_srcs, skyc2_srcs,
                   temp_srcs, srcs_df>>

InitPar == \E n \in 2..MaxGroups : InitGroups(1..n)

NextPar ==
    \/ \E g \in groups : Worker(g)
    \/ \E g \in groups : WorkerRaise(g)
    \/ Merge
    \/ Abort

SpecPar == InitPar /\ [][NextPar]_vars

-----------------------------------------------------------------------------
(* Vocabulary of the properties *)

Started(g) == pc[g] # "start"
Iterated(g) == Started(g) /\ epoch[g] >= 2

(* the last iteration of g forked an identity *)
ForkedInLast(g) ==
    \E k \in DOMAIN temp_srcs[g] :
        temp_srcs[g][k].source_skyc1 # temp_srcs[g][k].matched

(* the identity-level related relation of a frame *)
RelatedOf(df, a) ==
    UNION { SeqRange(df[k].related) : k \in { i \in DOMAIN df : df[i].source = a } }

-----------------------------------------------------------------------------
(* C1: after every iteration, in every mode, every identity on a row of    *)
(* the running frame has a row in the reference frame; an identity minted  *)
(* by a one-to-many fork included.                                         *)
C1_RunningIdsInReference ==
    \A g \in groups :
        Started(g) => Sources(sources_df[g]) \subseteq Sources(skyc1_srcs[g])

(* C2: within a group, after the initial frame and after every iteration,  *)
(* the identities of the running frame are exactly 1..max.                 *)
C2_DenseIdentities ==
    \A g \in groups :
        Started(g) => Sources(sources_df[g]) = 1..MaxSource(sources_df[g])

(* an identity minted for an unmatched row, then a fork in a later         *)
(* iteration                                                               *)
C2_Witness ==
    \E g \in groups :
        /\ epoch[g] = 3 /\ ForkedInLast(g)
        /\ Cardinality(Sources(sources_df[g])) >= 3
        /\ \E i \in DOMAIN sources_df[g] :
              /\ sources_df[g][i].epoch = 2
              /\ \A j \in DOMAIN sources_df[g] :
                    sources_df[g][j].source = sources_df[g][i].source
                        => (sources_df[g][j].epoch >= 2
                            /\ \A k \in DOMAIN sources_df[g] :
                                  sources_df[g][k].id = sources_df[g][j].id => k = j)

(* C3: after every iteration, no two rows of the running frame that come   *)
(* from the same image carry the same identity.                            *)
C3_NoIntraImageCollision ==
    \A g \in groups :
        \A i, j \in DOMAIN sources_df[g] :
            (i # j /\ sources_df[g][i].image = sources_df[g][j].image)
                => sources_df[g][i].source # sources_df[g][j].source

(* a fork whose candidates tie on the rank, after an earlier fork *)
C3_Witness ==
    \E g \in groups :
        /\ epoch[g] = 3 /\ ForkedInLast(g)
        /\ \E k, l \in DOMAIN temp_srcs[g] :
              /\ k # l
              /\ temp_srcs[g][k].matched = temp_srcs[g][l].matched
              /\ RatEq(dist_col(method, temp_srcs[g][k]), dist_col(method, temp_srcs[g][l]))
        /\ \E i, j \in DOMAIN sources_df[g] :
              /\ i # j
              /\ sources_df[g][i].id = sources_df[g][j].id
              /\ sources_df[g][i].epoch = 1

(* C4: at the end of a group's association the identity-level related      *)
(* relation is symmetric.                                                  *)
C4_RelatedSymmetric ==
    \A g \in groups :
        pc[g] = "done" =>
            \A a, b \in Sources(sources_df[g]) :
                b \in RelatedOf(sources_df[g], a) => a \in RelatedOf(sources_df[g], b)

(* C5: at the end of each iteration, every identity of the running frame   *)
(* has reference ra, dec and uncertainties equal to the weighted-mean      *)
(* formulas over the running-frame rows bearing it.                        *)
MeanConsistent(ref, rows) ==
    LET sw_ew == SumOver(rows, LAMBDA r : r.weight_ew)
        sw_ns == SumOver(rows, LAMBDA r : r.weight_ns)
        s_ra  == SumOver(rows, LAMBDA r : ra_wrap(r) * r.weight_ew)
        s_dec == SumOver(rows, LAMBDA r : r.dec * r.weight_ns)
    IN  /\ \/ ref.ra.n * sw_ew = s_ra * ref.ra.d
           \/ ref.ra.n * sw_ew = (s_ra - RaFull * sw_ew) * ref.ra.d
        /\ 0 <= ref.ra.n /\ ref.ra.n < RaFull * ref.ra.d
        /\ ref.dec.n * sw_ns = s_dec * ref.dec.d
        /\ ref.uncertainty_ew = sw_ew
        /\ ref.uncertainty_ns = sw_ns

C5_MeanConsistency ==
    \A g \in groups :
        Iterated(g) =>
            \A s \in Sources(sources_df[g]) :
                \E i \in DOMAIN skyc1_srcs[g] :
                    /\ skyc1_srcs[g][i].source = s
                    /\ MeanConsistent(skyc1_srcs[g][i], RowsOf(sources_df[g], s))

(* the part of C5 that does not depend on C1: the rows the reference frame *)
(* does hold are consistent                                                *)
C5_ReferenceRowsConsistent ==
    \A g \in groups :
        Iterated(g) =>
            \A i \in DOMAIN skyc1_srcs[g] :
                MeanConsistent(skyc1_srcs[g][i],
                               RowsOf(sources_df[g], skyc1_srcs[g][i].source))

-----------------------------------------------------------------------------
(* the identities of the initial epoch: one per measurement of epoch 1 *)
InitialCount(df) == Cardinality({ df[k].id : k \in { i \in DOMAIN df : df[i].epoch = 1 } })

HasInitialRow(df, s) == \E k \in DOMAIN df : df[k].source = s /\ df[k].epoch = 1

(* C6, as claimed: no identity of the initial epoch is marked new, and     *)
(* every identity that first appears later is marked new, the identity     *)
(* minted by a fork of an initial-epoch identity included.                 *)
C6_NewIffLaterEpoch ==
    \A g \in groups :
        pc[g] = "done" =>
            \A s \in DOMAIN srcs_df[g] :
                srcs_df[g][s].new = (s > InitialCount(sources_df[g]))

(* C6, amended: no identity of the initial epoch is marked new; an         *)
(* identity that first appears later is marked new unless it inherited a   *)
(* row of the initial epoch through a fork, and then it is not new.        *)
C6_NewUnlessInherited ==
    \A g \in groups :
        pc[g] = "done" =>
            \A s \in DOMAIN srcs_df[g] :
                /\ s <= InitialCount(sources_df[g]) => ~srcs_df[g][s].new
                /\ (s > InitialCount(sources_df[g]) /\ ~HasInitialRow(sources_df[g], s))
                       => srcs_df[g][s].new
                /\ (s > InitialCount(sources_df[g]) /\ HasInitialRow(sources_df[g], s))
                       => ~srcs_df[g][s].new

(* the two-epoch fork of an initial identity, finalised *)
C6_Witness ==
    \E g \in groups :
        /\ pc[g] = "done" /\ epoch[g] = 2 /\ ForkedInLast(g)
        /\ \E s \in DOMAIN srcs_df[g] :
              /\ s > InitialCount(sources_df[g])
              /\ HasInitialRow(sources_df[g], s)
              /\ ~srcs_df[g][s].new

(* C7: the finaliser sets new for an identity iff none of the running-     *)
(* frame rows bearing it, inherited rows included, is of the initial epoch.*)
C7_NewIffNoInitialRow ==
    \A g \in groups :
        pc[g] = "done" =>
            /\ DOMAIN srcs_df[g] = Sources(sources_df[g])
            /\ \A s \in DOMAIN srcs_df[g] :
                  srcs_df[g][s].new <=> ~HasInitialRow(sources_df[g], s)

C7_Witness ==
    \E g \in groups :
        /\ pc[g] = "done" /\ epoch[g] = 3
        /\ \E s, t \in DOMAIN srcs_df[g] :
              /\ srcs_df[g][s].new
              /\ ~srcs_df[g][t].new /\ t > InitialCount(sources_df[g])

(* C8: an iteration only appends rows: every row of the running frame      *)
(* keeps its identity; and of the new rows matched to one identity exactly *)
(* one is written with it.                                                 *)
RowsKept(old, new) ==
    /\ Len(old) <= Len(new)
    /\ \A k \in DOMAIN old :
          new[k].id = old[k].id /\ new[k].source = old[k].source

OneWinner(pairs, written) ==
    \A t \in DOMAIN pairs :
        Cardinality({ k \in DOMAIN written : written[k].source = pairs[t].matched }) = 1

C8_IdentityStability ==
    [][\A g \in groups :
          (pc[g] = "loop" /\ epoch'[g] = epoch[g] + 1)
              => /\ RowsKept(sources_df[g], sources_df'[g])
                 /\ OneWinner(temp_srcs'[g], skyc2_srcs'[g])]_vars

(* an iteration after a fork, itself forking *)
C8_Witness ==
    \E g \in groups :
        /\ epoch[g] = 3 /\ ForkedInLast(g)
        /\ \E k \in DOMAIN sources_df[g] :
              sources_df[g][k].epoch = 2 /\ sources_df[g][k].related # <<>>

-----------------------------------------------------------------------------
(* The merged frame *)

Merged == results.status = "merged"

GroupRows(g) == SelectSeq(results.frame, LAMBDA r : r.skyreg_group = g)

(* the largest merged identity of the groups up to g *)
CumulativeMax(g) ==
    LET ids == { results.frame[k].source :
                   k \in { i \in DOMAIN results.frame : results.frame[i].skyreg_group <= g } }
    IN  CHOOSE m \in ids : \A x \in ids : x <= m

(* C9: after the merge no identity is shared by two groups, each later     *)
(* group occupies the block right after the cumulative maximum of the      *)
(* groups before it, and the merged identities are exactly 1..total.       *)
C9_MergedIdentitiesDisjointDense ==
    Merged =>
        /\ \A i, j \in DOMAIN results.frame :
              results.frame[i].source = results.frame[j].source
                  => results.frame[i].skyreg_group = results.frame[j].skyreg_group
        /\ \A g \in groups :
              g - 1 \in groups =>
                  Sources(GroupRows(g)) =
                      (CumulativeMax(g - 1) + 1) ..
                      (CumulativeMax(g - 1) + Cardinality(Sources(sources_df[g])))
        /\ Sources(results.frame) = 1..Cardinality(Sources(results.frame))

C9_Witness ==
    /\ Merged /\ Cardinality(groups) = 3
    /\ \A g \in groups : Cardinality(Sources(sources_df[g])) >= 2
    /\ \E g \in groups : ForkedInLast(g)

(* C10: on merge every related entry of a group is shifted by the offset   *)
(* of the group's identities and names an identity of the same group; rows *)
(* without relations stay without.                                         *)
C10_RelatedShifted ==
    Merged =>
        \A g \in groups :
            LET rows == GroupRows(g)
                off  == rows[1].source - sources_df[g][1].source
            IN  /\ Len(rows) = Len(sources_df[g])
                /\ \A k \in DOMAIN rows :
                      /\ rows[k].source = sources_df[g][k].source + off
                      /\ Len(rows[k].related) = Len(sources_df[g][k].related)
                      /\ \A n \in DOMAIN rows[k].related :
                            /\ rows[k].related[n] = sources_df[g][k].related[n] + off
                            /\ rows[k].related[n] \in Sources(rows)

C10_Witness ==
    /\ Merged
    /\ \E g \in groups :
          /\ g > 1
          /\ \E k, l \in DOMAIN GroupRows(g) :
                /\ GroupRows(g)[k].related # <<>>
                /\ GroupRows(g)[l].related = <<>>
                /\ GroupRows(g)[k].source > sources_df[g][k].source

-----------------------------------------------------------------------------
(* The same images associated as a single group.  The measurements of the  *)
(* groups are read back from their frames (every loaded measurement is on  *)
(* a row); the batch of an epoch holds them in the order of their ids.     *)

LoadedRows == UNION { SeqRange(sources_df[g]) : g \in groups }

OrigIds(e) == SortedSeq({ r.id : r \in { x \in LoadedRows : x.epoch = e } })

MeasOf(i) ==
    LET r == CHOOSE x \in LoadedRows : x.id = i
    IN  [ra |-> r.ra, dec |-> r.dec, weight_ew |-> r.weight_ew, weight_ns |-> r.weight_ns]

SingleBatch(e) == [k \in 1..Len(OrigIds(e)) |-> MeasOf(OrigIds(e)[k])]

LastEpoch == CHOOSE e \in { epoch[g] : g \in groups } : \A g \in groups : epoch[g] <= e

(* the outcomes of association over all images as one group *)
SingleGroupOutcomes ==
    LET ini == prep_skysrc_df(SingleBatch(1), 1, 1, TRUE)
    IN  association(method, 1, 2, AssocState(ini, RefRows(ini), NoFrame, NoFrame),
                    [n \in 1..(LastEpoch - 1) |-> SingleBatch(n + 1)])

(* the images of two sky-region groups *)
InitShard == InitGroups({1, 2})

ShardWorker(g) == WorkerOn(g, Sky)

NextShard ==
    \/ \E g \in groups : ShardWorker(g)
    \/ \E g \in groups : WorkerRaise(g)
    \/ Merge
    \/ Abort

SpecShard == InitShard /\ [][NextShard]_vars

(* the measurement a row of the single-group frame was loaded from *)
OrigIdOf(r) == OrigIds(r.epoch)[r.id - MeasId(1, r.epoch, 0)]

(* the sources of a frame: the measurements of each identity with its new  *)
(* flag, the identity itself left out                                      *)
SourcesOfFrame(df, IdOf(_)) ==
    { << { IdOf(df[k]) : k \in { i \in DOMAIN df : df[i].source = s } },
         groupby_funcs(RowsOf(df, s), first_img).new >> : s \in Sources(df) }

-----------------------------------------------------------------------------
(* the images of group g, read back from its frame df: the batch of epoch  *)
(* e as the loader returned it                                             *)
GroupBatch(df, g, e) ==
    LET ids == SortedSeq({ df[k].id : k \in { i \in DOMAIN df : df[i].epoch = e } })
        Row(i) == df[CHOOSE k \in DOMAIN df : df[k].id = i]
    IN  [k \in 1..Len(ids) |->
            [ra        |-> Row(ids[k]).ra - (g - 1) * GroupSpacing,
             dec       |-> Row(ids[k]).dec,
             weight_ew |-> Row(ids[k]).weight_ew,
             weight_ns |-> Row(ids[k]).weight_ns]]

(* the frames association returns for the n epochs of images of group g    *)
(* on df, run on its own                                                   *)
WorkerFrames(df, g, n) ==
    LET ini == prep_skysrc_df(GroupBatch(df, g, 1), g, 1, TRUE)
    IN  { st.sources_df :
            st \in association(method, g, 2,
                       AssocState(ini, RefRows(ini), NoFrame, NoFrame),
                       [e \in 1..(n - 1) |-> GroupBatch(df, g, e + 1)]) }

(* the offset of group g in ascending group index *)
Offset(g) == SumSeq([h \in 1..(g - 1) |-> MaxSource(sources_df[h])])

(* the merged rows of every group are its own rows, shifted by its offset *)
MergedByGroupIndex ==
    Merged =>
        \A g \in groups :
            /\ Len(GroupRows(g)) = Len(sources_df[g])
            /\ \A k \in DOMAIN GroupRows(g) :
                  /\ GroupRows(g)[k].id = sources_df[g][k].id
                  /\ GroupRows(g)[k].source = sources_df[g][k].source + Offset(g)
                  /\ GroupRows(g)[k].related =
                        [n \in DOMAIN sources_df[g][k].related |->
                            sources_df[g][k].related[n] + Offset(g)]

(* a worker step writes the frames of its own group only, and what it      *)
(* writes does not depend on the groups that have already returned         *)
WorkerStepIndependent ==
    \A g \in groups :
        (pc[g] = "start" /\ pc'[g] = "done") =>
            /\ sources_df'[g] \in WorkerFrames(sources_df'[g], g, epoch'[g])
            /\ \A h \in groups \ {g} :
                  /\ pc'[h] = pc[h]
                  /\ sources_df'[h] = sources_df[h]
                  /\ skyc1_srcs'[h] = skyc1_srcs[h]

(* C12: the merged frame does not depend on the order in which the group   *)
(* workers run: a worker shares no state with the others, and the merge    *)
(* assigns the offsets in ascending group index.                           *)
C12_OrderIndependent ==
    /\ []MergedByGroupIndex
    /\ [][WorkerStepIndependent]_vars

(* three groups merged, forks in two of them *)
C12_Witness ==
    /\ Merged
    /\ Cardinality(groups) = 3
    /\ \E g, h \in groups :
          /\ g < h
          /\ \E k \in DOMAIN sources_df[g] : sources_df[g][k].related # <<>>
          /\ \E k \in DOMAIN sources_df[h] : sources_df[h][k].related # <<>>

-----------------------------------------------------------------------------
(* C13: under a method other than basic, advanced and deruiter a group's   *)
(* association raises at entry: it loads no measurement and never returns  *)
(* a frame, a group of a single epoch included.                            *)
C13_ConfigErrorAtEntry ==
    \A g \in groups :
        method \notin Methods =>
            /\ pc[g] \in {"start", "failed"}
            /\ sources_df[g] = NoFrame
            /\ skyc1_srcs[g] = NoFrame

-----------------------------------------------------------------------------
(* C14: when the association of a group has failed the run returns no      *)
(* merged frame, and the failed group has left no rows and no sources.     *)
C14_FailedGroupFailsRun ==
    \A g \in groups :
        pc[g] = "failed" =>
            /\ results.status # "merged"
            /\ sources_df[g] = NoFrame
            /\ srcs_df[g] = NoFrame

(* one group failed after another returned its frame; the run has failed *)
C14_Witness ==
    /\ results.status = "failed"
    /\ \E g, h \in groups :
          /\ pc[g] = "failed"
          /\ pc[h] = "done" /\ sources_df[h] # NoFrame

-----------------------------------------------------------------------------
(* A group whose images lie around RA 0 *)

WrapStart(g) == StartOn(g, SkyWrap)

WrapIterate(g) == IterateOn(g, SkyWrap)

NextWrap ==
    \/ \E g \in groups : WrapStart(g)
    \/ \E g \in groups : WrapIterate(g)
    \/ \E g \in groups : Raise(g)
    \/ \E g \in groups : Return(g)

SpecWrap == Init /\ [][NextWrap]_vars

(* the search radius of the method, squared *)
Radius2 == IF method = "deruiter" THEN BwMax2 ELSE Limit2

(* the RA separation of two measurements, the short way round *)
ArcSep(a, b) == Min2(Abs(a - b), RaFull - Abs(a - b))

(* the RA separation of a reference RA and a measurement, times ref.d *)
RefArcSep(ref, a) ==
    Min2(Abs(ref.n - a * ref.d), RaFull * ref.d - Abs(ref.n - a * ref.d))

ArcWidth(rows) ==
    CHOOSE w \in { ArcSep(rows[i].ra, rows[j].ra) : i, j \in DOMAIN rows } :
        \A i, j \in DOMAIN rows : ArcSep(rows[i].ra, rows[j].ra) <= w

(* C15: the reference RA of an identity whose measurements lie on an arc   *)
(* narrower than the search radius lies in [0, 360) and on that arc: no    *)
(* farther from any of the measurements than the arc is wide.              *)
C15_MeanRaOnArc ==
    \A g \in groups : \A i \in DOMAIN skyc1_srcs[g] :
        LET rows == tmp_srcs_df(sources_df[g], skyc1_srcs[g][i].source)
            ra   == skyc1_srcs[g][i].ra
        IN  (rows # <<>> /\ ArcWidth(rows) * ArcWidth(rows) < Radius2) =>
                /\ 0 <= ra.n /\ ra.n < RaFull * ra.d
                /\ \A k \in DOMAIN rows :
                      RefArcSep(ra, rows[k].ra) <= ArcWidth(rows) * ra.d

-----------------------------------------------------------------------------
(* The de Ruiter cut on its own: one reference row, one batch row, a       *)
(* dr_limit.  Positions in units of the uncertainty scale: a weight of 4   *)
(* is an uncertainty of 0.5.                                               *)

RuiterSky ==
    { [ra |-> r, dec |-> d, weight_ew |-> w, weight_ns |-> w] :
        r \in {100, 101, 103}, d \in {0, 1}, w \in {1, 4} }

(* dr_limit squared: 4, 5.68 and 10, and the radius of the pair 3 apart *)
DrLimits == { Rat(16, 1), Rat(18, 1), Rat(322624, 10000), Rat(100, 1) }

InitRuiter == Init /\ method = "deruiter"

RuiterLoad ==
    /\ pc[1] = "start"
    /\ \E a \in RuiterSky : \E b \in RuiterSky :
          /\ skyc1_srcs' = [skyc1_srcs EXCEPT
                               ![1] = RefRows(prep_skysrc_df(<<a>>, 1, 1, TRUE))]
          /\ skyc2_srcs' = [skyc2_srcs EXCEPT
                               ![1] = prep_skysrc_df(<<b>>, 1, 2, FALSE)]
    /\ pc' = [pc EXCEPT ![1] = "loop"]
    /\ UNCHANGED <<method, groups, epoch, sources_df, temp_srcs, srcs_df, results>>

(* Step 4 of advanced_association on the candidate pair *)
RuiterCut ==
    /\ pc[1] = "loop"
    /\ \E dr_limit2 \in DrLimits :
          /\ temp_srcs' = [temp_srcs EXCEPT
                ![1] = advanced_temp_srcs(method, skyc1_srcs[1], skyc2_srcs[1],
                                          <<<<1, 1>>>>, dr_limit2)]
          /\ results' = [status |-> "cut", dr_limit2 |-> dr_limit2]
    /\ pc' = [pc EXCEPT ![1] = "done"]
    /\ UNCHANGED <<method, groups, epoch, sources_df, skyc1_srcs, skyc2_srcs, srcs_df>>

NextRuiter == RuiterLoad \/ RuiterCut

SpecRuiter == InitRuiter /\ [][NextRuiter]_vars

CutDone == results.status = "cut"

(* the formula: squared offsets over the sums of the squared uncertainties *)
(* (1 / weight), as numerator and denominator                              *)
DrFormula2(ref, row) ==
    LET dra  == ref.ra.n - row.ra
        ddec == ref.dec.n - row.dec
        ew   == ref.uncertainty_ew + row.weight_ew
        ns   == ref.uncertainty_ns + row.weight_ns
    IN  Rat(dra * dra * ref.uncertainty_ew * row.weight_ew * ns
              + ddec * ddec * ref.uncertainty_ns * row.weight_ns * ew,
            ew * ns)

(* two positions 3 apart, uncertainty 0.5 each *)
ThreeApartHalfSigma ==
    /\ Abs(skyc1_srcs[1][1].ra.n - skyc2_srcs[1][1].ra) = 3
    /\ skyc1_srcs[1][1].dec.n = skyc2_srcs[1][1].dec
    /\ skyc1_srcs[1][1].uncertainty_ew = 4 /\ skyc2_srcs[1][1].weight_ew = 4

Survives == temp_srcs[1] # <<>>

(* C16 as stated: the pair survives the cut iff dr <= dr_limit, and the    *)
(* pair 3 apart with uncertainty 0.5 each is rejected at dr_limit 5.68 and *)
(* accepted at 10.                                                         *)
C16_CutRejectsAt568 ==
    CutDone =>
        /\ Survives <=> RatLeq(DrFormula2(skyc1_srcs[1][1], skyc2_srcs[1][1]),
                               results.dr_limit2)
        /\ ThreeApartHalfSigma =>
              /\ results.dr_limit2 = Rat(322624, 10000) => ~Survives
              /\ results.dr_limit2 = Rat(100, 1) => Survives

(* C16, amended: the pair survives the cut iff dr <= dr_limit; the pair 3  *)
(* apart with uncertainty 0.5 each has dr = sqrt(18), about 4.24, so it is *)
(* accepted at dr_limit 5.68 and at 10, and rejected at 4.                 *)
C16_CutByFormula ==
    CutDone =>
        /\ Survives <=> RatLeq(DrFormula2(skyc1_srcs[1][1], skyc2_srcs[1][1]),
                               results.dr_limit2)
        /\ Survives => RatEq(temp_srcs[1][1].dr,
                             DrFormula2(skyc1_srcs[1][1], skyc2_srcs[1][1]))
        /\ ThreeApartHalfSigma =>
              /\ RatEq(DrFormula2(skyc1_srcs[1][1], skyc2_srcs[1][1]), Rat(18, 1))
              /\ results.dr_limit2 = Rat(322624, 10000) => Survives
              /\ results.dr_limit2 = Rat(100, 1) => Survives
              /\ results.dr_limit2 = Rat(16, 1) => ~Survives

C16_Witness ==
    /\ CutDone /\ ThreeApartHalfSigma
    /\ results.dr_limit2 = Rat(322624, 10000)
    /\ Survives

-----------------------------------------------------------------------------
(* Two executions of association on images of the same field: execution x  *)
(* keeps its frames under index x; both see the sky of group 1.            *)

Execution(x) ==
    /\ pc[x] = "start"
    /\ \E n \in 1..MaxParEpochs : \E bs \in EpochBatches(Sky, n) :
          /\ (n = 1 \/ method \in Methods)
          /\ LET ini == prep_skysrc_df(bs[1], 1, 1, TRUE)
                 st0 == AssocState(ini, RefRows(ini), NoFrame, NoFrame)
             IN  \E st \in association(method, 1, 2, st0, Tail(bs)) :
                    /\ sources_df' = [sources_df EXCEPT ![x] = st.sources_df]
                    /\ skyc1_srcs' = [skyc1_srcs EXCEPT ![x] = st.skyc1_srcs]
                    /\ skyc2_srcs' = [skyc2_srcs EXCEPT ![x] = st.skyc2_srcs]
                    /\ temp_srcs' = [temp_srcs EXCEPT ![x] = st.temp_srcs]
                    /\ epoch' = [epoch EXCEPT ![x] = n]
    /\ pc' = [pc EXCEPT ![x] = "done"]
    /\ UNCHANGED <<method, groups, srcs_df, results>>

InitPair == InitGroups({1, 2})

NextPair == \E x \in groups : Execution(x)

SpecPair == InitPair /\ [][NextPair]_vars

(* the next iteration of execution x on a batch, with idx the nearest      *)
(* reference rows                                                          *)
NextIteration(x, batch, idx) ==
    association_iteration(method, sources_df[x], skyc1_srcs[x],
                          prep_skysrc_df(batch, 1, MaxParEpochs + 1, FALSE), idx)

(* the identities an iteration wrote on the rows of its batch *)
Assigned(r) ==
    { <<r.skyc2_srcs[k].id, r.skyc2_srcs[k].source>> : k \in DOMAIN r.skyc2_srcs }

Choices(x, batch) ==
    IF method = "basic"
    THEN NearestChoices(skyc1_srcs[x], prep_skysrc_df(batch, 1, MaxParEpochs + 1, FALSE))
    ELSE { [j \in DOMAIN batch |-> 1] }

EqualReference(x, y) ==
    /\ pc[x] = "done" /\ pc[y] = "done"
    /\ method \in Methods
    /\ skyc1_srcs[x] = skyc1_srcs[y]

(* C17: two executions that have reached equal reference frames assign,    *)
(* on equal batches under the same parameters, the same identities (the    *)
(* fresh ones included) and reach the same next reference frame.           *)
C17_IterationPureInReference ==
    \A x, y \in groups :
        EqualReference(x, y) =>
            \A batch \in Batches(Sky) : \A idx \in Choices(x, batch) :
                /\ Assigned(NextIteration(x, batch, idx))
                      = Assigned(NextIteration(y, batch, idx))
                /\ NextIteration(x, batch, idx).skyc1_srcs
                      = NextIteration(y, batch, idx).skyc1_srcs

-----------------------------------------------------------------------------
(* the separation of a batch row from its nearest row of the frame skyc1 *)
NearestSep2(skyc1, row) ==
    Sep2(skyc1[CHOOSE i \in DOMAIN skyc1 :
                   \A k \in DOMAIN skyc1 : RatLeq(Sep2(skyc1[i], row), Sep2(skyc1[k], row))],
         row)

(* g has just run an iteration of basic association *)
BasicIterated(g) == method = "basic" /\ epoch[g] >= 1 /\ epoch'[g] = epoch[g] + 1

(* the pairs written for batch row j by the iteration *)
PairsOf(g, j) == { k \in DOMAIN temp_srcs'[g] : temp_srcs'[g][k].index_old_skyc2 = j }

BasicMatchNearest(g) ==
    \A j \in DOMAIN skyc2_srcs'[g] :
        LET row  == skyc2_srcs'[g][j]
            near == NearestSep2(skyc1_srcs[g], row)
        IN  IF RatLeq(near, Rat(Limit2, 1))
            THEN /\ Cardinality(PairsOf(g, j)) = 1
                 /\ \A k \in PairsOf(g, j) :
                       /\ RatEq(temp_srcs'[g][k].d2d_skyc2, near)
                       /\ \E i \in DOMAIN skyc1_srcs[g] :
                             /\ skyc1_srcs[g][i].source = temp_srcs'[g][k].matched
                             /\ RatEq(Sep2(skyc1_srcs[g][i], row), near)
                 /\ RatEq(row.d2d, near)
            ELSE /\ PairsOf(g, j) = {}
                 /\ row.source \notin Sources(sources_df[g])
                 /\ row.d2d = Zero

(* C18: in basic association a batch row whose nearest reference row is    *)
(* within limit is given, before one-to-many resolution, the identity of a *)
(* nearest row and that separation as d2d; a row whose nearest reference   *)
(* row is farther is given no identity but a fresh one.                    *)
C18_BasicMatchesNearest ==
    [][\A g \in groups : BasicIterated(g) => BasicMatchNearest(g)]_vars

(* a row matched at a separation above zero and an unmatched row in one    *)
(* batch                                                                   *)
C18_Witness ==
    \E g \in groups :
        /\ method = "basic" /\ epoch[g] >= 2
        /\ \E k \in DOMAIN temp_srcs[g] : ~RatEq(temp_srcs[g][k].d2d_skyc2, Zero)
        /\ \E j \in DOMAIN skyc2_srcs[g] :
              \A k \in DOMAIN temp_srcs[g] : temp_srcs[g][k].index_old_skyc2 # j

-----------------------------------------------------------------------------
(* g has just run an iteration *)
JustIterated(g) == method \in Methods /\ epoch[g] >= 1 /\ epoch'[g] = epoch[g] + 1

(* the rank of a pair: its own separation, or its own de Ruiter radius *)
OwnRank(pair) == IF method = "deruiter" THEN pair.dr ELSE pair.d2d_pair

(* the pairs the iteration resolved against reference identity m *)
PairsWith(g, m) == { k \in DOMAIN temp_srcs'[g] : temp_srcs'[g][k].matched = m }

(* the identities the iteration minted for losers *)
ForkIds(g) ==
    { temp_srcs'[g][k].source_skyc1 :
        k \in { l \in DOMAIN temp_srcs'[g] :
                  temp_srcs'[g][l].source_skyc1 # temp_srcs'[g][l].matched } }

Losers(g) ==
    { k \in DOMAIN temp_srcs'[g] : temp_srcs'[g][k].source_skyc1 # temp_srcs'[g][k].matched }

OneToManyResolved(g) ==
    /\ \A m \in Sources(skyc1_srcs[g]) :
          Cardinality(PairsWith(g, m)) >= 2 =>
              \E w \in PairsWith(g, m) :
                  /\ temp_srcs'[g][w].source_skyc1 = m
                  /\ \A k \in PairsWith(g, m) :
                        /\ RatLeq(OwnRank(temp_srcs'[g][w]), OwnRank(temp_srcs'[g][k]))
                        /\ k # w => temp_srcs'[g][k].source_skyc1 # m
    /\ \A k, l \in Losers(g) :
          k # l => temp_srcs'[g][k].source_skyc1 # temp_srcs'[g][l].source_skyc1
    /\ ForkIds(g) = (MaxSource(sources_df[g]) + 1)
                        ..(MaxSource(sources_df[g]) + Cardinality(Losers(g)))

(* C19: when two or more batch rows are paired with reference identity m,  *)
(* the row whose own pair with m has the least rank keeps m, and every     *)
(* other one gets a fresh identity of its own, numbered on from            *)
(* max(source) + 1.                                                        *)
C19_OneToManyKeepsNearest ==
    [][\A g \in groups : JustIterated(g) => OneToManyResolved(g)]_vars

-----------------------------------------------------------------------------
(* association_basic of the package pipeline: the running frame and the    *)
(* reference frame have the same columns; ra and dec are the working       *)
(* columns the averages overwrite, ra_source and dec_source the            *)
(* measurement                                                             *)

RatAdd(a, b) == Norm(a.n * b.d + b.n * a.d, a.d * b.d)

RECURSIVE RatSumSeq(_)
RatSumSeq(s) == IF s = <<>> THEN Zero ELSE RatAdd(Head(s), RatSumSeq(Tail(s)))

read_parquet(rows) ==
    [k \in 1..Len(rows) |->
        [id         |-> rows[k].id,
         image      |-> rows[k].image,
         epoch      |-> rows[k].epoch,
         source     |-> rows[k].source,
         ra         |-> Rat(rows[k].ra, 1),
         dec        |-> Rat(rows[k].dec, 1),
         ra_source  |-> rows[k].ra,
         dec_source |-> rows[k].dec,
         weight_ew  |-> rows[k].weight_ew,
         weight_ns  |-> rows[k].weight_ns,
         d2d        |-> rows[k].d2d]]

(* the sum of interim_ew over the sum of weight_ew *)
tmp_srcs_df_wm_ra(rows) ==
    LET n == RatSumSeq([k \in 1..Len(rows) |->
                 Norm(rows[k].ra.n * rows[k].weight_ew, rows[k].ra.d)])
    IN  Norm(n.n, n.d * SumOver(rows, LAMBDA r : r.weight_ew))

tmp_srcs_df_wm_dec(rows) ==
    LET n == RatSumSeq([k \in 1..Len(rows) |->
                 Norm(rows[k].dec.n * rows[k].weight_ns, rows[k].dec.d)])
    IN  Norm(n.n, n.d * SumOver(rows, LAMBDA r : r.weight_ns))

(* skyc1_srcs.merge(weighted_df, on='source', how='left') *)
weighted_df(skyc1, sdf) ==
    [i \in DOMAIN skyc1 |->
        [skyc1[i] EXCEPT
            !.ra  = tmp_srcs_df_wm_ra(tmp_srcs_df(sdf, skyc1[i].source)),
            !.dec = tmp_srcs_df_wm_dec(tmp_srcs_df(sdf, skyc1[i].source))]]

(* the source ids that more than one row of the batch was given *)
multi_srcs(skyc2) ==
    Unique([k \in 1..Cardinality(duplicated_skyc2(skyc2)) |->
               skyc2[SortedSeq(duplicated_skyc2(skyc2))[k]].source])

(* the double-match test: some source value, the sentinel included, is on  *)
(* more than one row                                                       *)
double_matches(skyc2) ==
    \E j, k \in DOMAIN skyc2 : j # k /\ skyc2[j].source = skyc2[k].source

(* the index of the first reference row of msrc *)
skyc1_source_index(skyc1, msrc) ==
    CHOOSE i \in DOMAIN skyc1 :
        /\ skyc1[i].source = msrc
        /\ \A k \in DOMAIN skyc1 : skyc1[k].source = msrc => i <= k

(* the reference row of msrc, once for every loser *)
skyc1_srcs_toadd(skyc1, msrc, start_elem, num_to_add) ==
    [k \in 1..num_to_add |->
        [skyc1[skyc1_source_index(skyc1, msrc)] EXCEPT !.source = start_elem + k - 1]]

RECURSIVE CleanDoubleMatches(_, _, _, _)
CleanDoubleMatches(msrcs, sdf, skyc1, skyc2) ==
    IF msrcs = <<>> THEN [sources_df |-> sdf, skyc2_srcs |-> skyc2]
    ELSE LET msrc == Head(msrcs)
             cut == { j \in DOMAIN skyc2 : skyc2[j].source = msrc }
             min_d2d_idx == IdxMin(cut, [j \in DOMAIN skyc2 |-> skyc2[j].d2d])
             to_change == idx_to_change(cut, min_d2d_idx)
             toadd == skyc1_srcs_toadd(skyc1, msrc, MaxSource(sdf) + 1,
                                       Cardinality(cut) - 1)
             changed == [j \in DOMAIN skyc2 |->
                 IF j \in to_change
                 THEN [skyc2[j] EXCEPT !.source = toadd[RankIn(to_change, j) + 1].source]
                 ELSE skyc2[j]]
         IN  CleanDoubleMatches(Tail(msrcs), sdf \o toadd, skyc1, changed)

(* the rows of the batch after the match within limit *)
association_basic_match(skyc1, skyc2, idx) ==
    [j \in DOMAIN skyc2 |->
        IF RatLeq(Sep2(skyc1[idx[j]], skyc2[j]), Rat(Limit2, 1))
        THEN [skyc2[j] EXCEPT !.source = skyc1[idx[j]].source,
                              !.d2d = Sep2(skyc1[idx[j]], skyc2[j])]
        ELSE skyc2[j]]

(* the unmatched rows numbered from the maximum of the running frame *)
association_basic_number(sdf, skyc2) ==
    [j \in DOMAIN skyc2 |->
        IF skyc2[j].source = -1
        THEN [skyc2[j] EXCEPT !.source =
                 MaxSource(sdf) + 1
                     + RankIn({ k \in DOMAIN skyc2 : skyc2[k].source = -1 }, j)]
        ELSE skyc2[j]]

(* the pairs of the iteration: the reference identity matched and the      *)
(* identity given                                                          *)
association_basic_pairs(skyc1, matched, numbered, idx) ==
    LET sel == { j \in DOMAIN matched : matched[j].source # -1 }
    IN  [k \in 1..Cardinality(sel) |->
            [index_old_skyc1 |-> idx[SortedSeq(sel)[k]],
             index_old_skyc2 |-> SortedSeq(sel)[k],
             source_skyc1    |-> numbered[SortedSeq(sel)[k]].source,
             matched         |-> matched[SortedSeq(sel)[k]].source,
             d2d_skyc2       |-> matched[SortedSeq(sel)[k]].d2d,
             d2d_pair        |-> matched[SortedSeq(sel)[k]].d2d,
             dr              |-> Zero,
             related_skyc1   |-> <<>>]]

association_basic_update(sdf, skyc1, matched, cleaned, numbered, idx) ==
    [sources_df |-> sdf \o read_parquet(numbered),
     skyc1_srcs |-> weighted_df(
                        skyc1 \o read_parquet(basic_new_refs(numbered,
                            { j \in DOMAIN cleaned : cleaned[j].source = -1 })),
                        sdf \o read_parquet(numbered)),
     skyc2_srcs |-> numbered,
     temp_srcs  |-> association_basic_pairs(skyc1, matched, numbered, idx)]

association_basic_clean(sdf, skyc1, matched, cleaned, idx) ==
    association_basic_update(cleaned.sources_df, skyc1, matched, cleaned.skyc2_srcs,
        association_basic_number(cleaned.sources_df, cleaned.skyc2_srcs), idx)

(* one iteration of the loop over images[1:] *)
association_basic(sdf, skyc1, skyc2, idx) ==
    association_basic_clean(sdf, skyc1, association_basic_match(skyc1, skyc2, idx),
        IF double_matches(association_basic_match(skyc1, skyc2, idx))
        THEN CleanDoubleMatches(multi_srcs(association_basic_match(skyc1, skyc2, idx)),
                                sdf, skyc1, association_basic_match(skyc1, skyc2, idx))
        ELSE [sources_df |-> sdf,
              skyc2_srcs |-> association_basic_match(skyc1, skyc2, idx)],
        idx)

(* the log line after the loop over multi_srcs reads the loop variable,    *)
(* which is unbound when the double-match test passed on sentinels alone   *)
UnboundLoopVariable(skyc2) == double_matches(skyc2) /\ multi_srcs(skyc2) = <<>>

InitPipeline == Init /\ method = "basic"

PipelineStart(g) ==
    /\ pc[g] = "start"
    /\ \E batch \in Batches(SkyFar) :
          /\ skyc1_srcs' = [skyc1_srcs EXCEPT
                               ![g] = read_parquet(prep_skysrc_df(batch, g, 1, TRUE))]
          /\ sources_df' = [sources_df EXCEPT
                               ![g] = read_parquet(prep_skysrc_df(batch, g, 1, TRUE))]
    /\ epoch' = [epoch EXCEPT ![g] = 1]
    /\ pc' = [pc EXCEPT ![g] = "loop"]
    /\ UNCHANGED <<method, groups, skyc2_srcs, temp_srcs, srcs_df, results>>

PipelineIterate(g) ==
    /\ pc[g] = "loop"
    /\ epoch[g] < MaxEpochs
    /\ \E batch \in Batches(SkyFar) :
          \E idx \in NearestChoices(skyc1_srcs[g],
                                    prep_skysrc_df(batch, g, epoch[g] + 1, FALSE)) :
             /\ ~UnboundLoopVariable(association_basic_match(skyc1_srcs[g],
                    prep_skysrc_df(batch, g, epoch[g] + 1, FALSE), idx))
             /\ sources_df' = [sources_df EXCEPT ![g] =
                    association_basic(sources_df[g], skyc1_srcs[g],
                        prep_skysrc_df(batch, g, epoch[g] + 1, FALSE), idx).sources_df]
             /\ skyc1_srcs' = [skyc1_srcs EXCEPT ![g] =
                    association_basic(sources_df[g], skyc1_srcs[g],
                        prep_skysrc_df(batch, g, epoch[g] + 1, FALSE), idx).skyc1_srcs]
             /\ skyc2_srcs' = [skyc2_srcs EXCEPT ![g] =
                    association_basic(sources_df[g], skyc1_srcs[g],
                        prep_skysrc_df(batch, g, epoch[g] + 1, FALSE), idx).skyc2_srcs]
             /\ temp_srcs' = [temp_srcs EXCEPT ![g] =
                    association_basic(sources_df[g], skyc1_srcs[g],
                        prep_skysrc_df(batch, g, epoch[g] + 1, FALSE), idx).temp_srcs]
    /\ epoch' = [epoch EXCEPT ![g] = @ + 1]
    /\ UNCHANGED <<method, groups, pc, srcs_df, results>>

PipelineRaise(g) ==
    /\ pc[g] = "loop"
    /\ epoch[g] < MaxEpochs
    /\ \E batch \in Batches(SkyFar) :
          \E idx \in NearestChoices(skyc1_srcs[g],
                                    prep_skysrc_df(batch, g, epoch[g] + 1, FALSE)) :
             UnboundLoopVariable(association_basic_match(skyc1_srcs[g],
                 prep_skysrc_df(batch, g, epoch[g] + 1, FALSE), idx))
    /\ pc' = [pc EXCEPT ![g] = "failed"]
    /\ UNCHANGED <<method, groups, epoch, sources_df, skyc1_srcs, skyc2_srcs,
                   temp_srcs, srcs_df, results>>

NextPipeline ==
    \/ \E g \in groups : PipelineStart(g)
    \/ \E g \in groups : PipelineIterate(g)
    \/ \E g \in groups : PipelineRaise(g)
    \/ \E g \in groups : Return(g)

SpecPipeline == InitPipeline /\ [][NextPipeline]_vars

-----------------------------------------------------------------------------
(* the rows of df that are row r under identity s *)
CopiesOf(df, r, s) == SelectSeq(df, LAMBDA c : c = [r EXCEPT !.source = s])

(* the rows of df that are measurement i under identity s *)
MeasRowsOf(df, i, s) == SelectSeq(df, LAMBDA c : c.source = s /\ c.id = i)

(* the fork recorded by pair p: the past of p.matched, once, and the       *)
(* loser's measurement are the rows of p.source_skyc1                      *)
HistoryCopied(g, p) ==
    LET past == RowsOf(sources_df[g], p.matched)
    IN  /\ Len(past) >= 1
        /\ \A n \in DOMAIN past :
              Len(CopiesOf(sources_df'[g], past[n], p.source_skyc1)) = 1
        /\ Len(MeasRowsOf(sources_df'[g],
                          MeasId(g, epoch'[g], p.index_old_skyc2),
                          p.source_skyc1)) = 1
        /\ Len(RowsOf(sources_df'[g], p.source_skyc1)) = Len(past) + 1

ForkCopiesHistory(g) ==
    \A k \in Losers(g) : HistoryCopied(g, temp_srcs'[g][k])

(* C20: a fork of identity m_old into m_new adds to the running frame one  *)
(* copy under m_new of every row that bore m_old before the iteration, so  *)
(* the rows of m_new are the whole past of m_old and the loser's new       *)
(* measurement; in basic as in advanced association, and for every fork of *)
(* one identity forked several times in one iteration.                     *)
C20_ForkCopiesHistory ==
    [][\A g \in groups : JustIterated(g) => ForkCopiesHistory(g)]_vars

-----------------------------------------------------------------------------
(* the measurements of the batch the iteration of g has just associated,   *)
(* read back from the running frame                                        *)
BatchIndex(g) ==
    { j \in 1..(MaxBatch + 1) :
        \E n \in DOMAIN sources_df'[g] :
            sources_df'[g][n].id = MeasId(g, epoch'[g], j) }

BatchRow(g, j) ==
    sources_df'[g][CHOOSE n \in DOMAIN sources_df'[g] :
                      sources_df'[g][n].id = MeasId(g, epoch'[g], j)]

(* the rank of the pair of reference row i and batch row j themselves *)
PairRank(g, i, j) ==
    IF method = "deruiter"
    THEN calc_de_ruiter(skyc1_srcs[g][i], BatchRow(g, j))
    ELSE Sep2(skyc1_srcs[g][i], BatchRow(g, j))

(* the candidate pairs: within the beamwidth limit and, for deruiter,      *)
(* within the de Ruiter limit                                              *)
Candidates(g) ==
    { p \in (DOMAIN skyc1_srcs[g]) \X BatchIndex(g) :
        /\ RatLeq(Sep2(skyc1_srcs[g][p[1]], BatchRow(g, p[2])), Rat(bw_max2(method), 1))
        /\ method = "deruiter" =>
              RatLeq(calc_de_ruiter(skyc1_srcs[g][p[1]], BatchRow(g, p[2])),
                     Rat(DrLimit2, 1)) }

(* the candidates whose batch row and whose reference row are each in      *)
(* more than one candidate                                                 *)
ManyToMany(g) ==
    { p \in Candidates(g) :
        /\ \E q \in Candidates(g) : q # p /\ q[2] = p[2]
        /\ \E q \in Candidates(g) : q # p /\ q[1] = p[1] }

(* the pairs the iteration has kept *)
Survivors(g) ==
    { <<temp_srcs'[g][k].index_old_skyc1, temp_srcs'[g][k].index_old_skyc2>> :
        k \in DOMAIN temp_srcs'[g] }

(* the many-to-many pairs that another pair of the same batch row outranks *)
Outranked(g) ==
    { p \in ManyToMany(g) :
        \E q \in ManyToMany(g) :
            q[2] = p[2] /\ RatLt(PairRank(g, q[1], q[2]), PairRank(g, p[1], p[2])) }

AdvancedIterated(g) == JustIterated(g) /\ method \in {"advanced", "deruiter"}

(* C21: of the many-to-many candidate pairs of one batch row only those of *)
(* the least rank (separation of the pair for advanced, dr of the pair for *)
(* deruiter) survive, and no other candidate pair is dropped.              *)
C21_ManyToManyKeepsMinimum ==
    [][\A g \in groups :
          AdvancedIterated(g) => Survivors(g) = Candidates(g) \ Outranked(g)]_vars

-----------------------------------------------------------------------------
(* the identities of the pairs kept for batch row j *)
IdentitiesOf(g, j) == { temp_srcs'[g][k].source_skyc1 : k \in PairsOf(g, j) }

(* the rows of the running frame written for batch row j *)
WrittenFor(g, j) ==
    SelectSeq(sources_df'[g], LAMBDA r : r.id = MeasId(g, epoch'[g], j))

(* row j is matched to several identities *)
ManyToOne(g, j) == Cardinality(IdentitiesOf(g, j)) >= 2

ManyToOneWritten(g, j) ==
    /\ Len(WrittenFor(g, j)) = Cardinality(IdentitiesOf(g, j))
    /\ \A s \in IdentitiesOf(g, j) :
          /\ Len(MeasRowsOf(sources_df'[g], MeasId(g, epoch'[g], j), s)) = 1
          /\ \A n \in DOMAIN WrittenFor(g, j) :
                WrittenFor(g, j)[n].source = s =>
                    /\ IdentitiesOf(g, j) \ {s} \subseteq SeqRange(WrittenFor(g, j)[n].related)
                    /\ s \notin SeqRange(WrittenFor(g, j)[n].related)
    /\ \A n \in DOMAIN WrittenFor(g, j) :
          WrittenFor(g, j)[n].source \in IdentitiesOf(g, j)

(* C22: a batch row whose surviving pairs are with several identities is   *)
(* written to the running frame once for each of them and under no other   *)
(* identity, and the related list of each of these rows holds every        *)
(* sibling identity of the row and not the identity of the row itself.     *)
C22_ManyToOneSiblings ==
    [][\A g \in groups :
          AdvancedIterated(g) =>
              \A j \in BatchIndex(g) : ManyToOne(g, j) => ManyToOneWritten(g, j)]_vars

(* a row matched to two identities, one of them forked by the one-to-many  *)
(* step of the same iteration                                              *)
C22_Witness ==
    \E g \in groups :
        /\ epoch[g] >= 2
        /\ \E k, l \in DOMAIN temp_srcs[g] :
              /\ k # l
              /\ temp_srcs[g][k].index_old_skyc2 = temp_srcs[g][l].index_old_skyc2
              /\ temp_srcs[g][k].source_skyc1 # temp_srcs[g][k].matched
              /\ temp_srcs[g][l].source_skyc1 = temp_srcs[g][l].matched
              /\ temp_srcs[g][l].source_skyc1 \in SeqRange(temp_srcs[g][k].related_skyc1)

-----------------------------------------------------------------------------
(* the rows written for pair p carry the separation of the pair itself,    *)
(* as does the rank column of the pair                                     *)
PairSeparationWritten(g, p) ==
    /\ RatEq(p.d2d_skyc2,
             Sep2(skyc1_srcs[g][p.index_old_skyc1], BatchRow(g, p.index_old_skyc2)))
    /\ \A n \in DOMAIN sources_df'[g] :
          (/\ sources_df'[g][n].id = MeasId(g, epoch'[g], p.index_old_skyc2)
           /\ sources_df'[g][n].source = p.source_skyc1)
              => RatEq(sources_df'[g][n].d2d,
                       Sep2(skyc1_srcs[g][p.index_old_skyc1],
                            BatchRow(g, p.index_old_skyc2)))

(* C23: in the advanced associator the row written to the running frame   *)
(* for a surviving pair of reference row R and batch row N has as d2d the  *)
(* separation of R and N, and so has the rank column of the pair, also     *)
(* when N has other candidate reference rows.                              *)
C23_PairOwnSeparation ==
    [][\A g \in groups :
          AdvancedIterated(g) =>
              \A k \in DOMAIN temp_srcs'[g] :
                  PairSeparationWritten(g, temp_srcs'[g][k])]_vars

-----------------------------------------------------------------------------
(* measurements on both sides of RA 90, of RA 270 and of RA 0, and away    *)
(* from them                                                               *)
ShiftSky ==
    { [ra |-> r, dec |-> 0, weight_ew |-> w, weight_ns |-> 1] :
        r \in {8999, 9001, 26999, 27001, RaFull - 1, 1, 100, 101}, w \in {1, 4} }

(* a reference row and a batch row within the beamwidth limit of it *)
ShiftLoad ==
    /\ pc[1] = "start"
    /\ \E a \in ShiftSky : \E b \in ShiftSky :
          /\ <<1, 1>> \in search_around_sky(RefRows(prep_skysrc_df(<<a>>, 1, 1, TRUE)),
                                            prep_skysrc_df(<<b>>, 1, 2, FALSE), method)
          /\ skyc1_srcs' = [skyc1_srcs EXCEPT
                               ![1] = RefRows(prep_skysrc_df(<<a>>, 1, 1, TRUE))]
          /\ skyc2_srcs' = [skyc2_srcs EXCEPT
                               ![1] = prep_skysrc_df(<<b>>, 1, 2, FALSE)]
    /\ pc' = [pc EXCEPT ![1] = "loop"]
    /\ UNCHANGED <<method, groups, epoch, sources_df, temp_srcs, srcs_df, results>>

NextShift == ShiftLoad \/ RuiterCut

SpecShift == InitRuiter /\ [][NextShift]_vars

(* the de Ruiter radius squared with the RA difference of the pair taken   *)
(* the short way round                                                     *)
DrShortWay2(ref, row) ==
    LET raw  == Abs(ref.ra.n - row.ra)
        dra  == Min2(raw, RaFull - raw)
        ddec == ref.dec.n - row.dec
        ew   == ref.uncertainty_ew + row.weight_ew
        ns   == ref.uncertainty_ns + row.weight_ns
    IN  Rat(dra * dra * ref.uncertainty_ew * row.weight_ew * ns
              + ddec * ddec * ref.uncertainty_ns * row.weight_ns * ew,
            ew * ns)

CutByTrueDifference ==
    CutDone =>
        /\ Survives <=> RatLeq(DrShortWay2(skyc1_srcs[1][1], skyc2_srcs[1][1]),
                               results.dr_limit2)
        /\ Survives => RatEq(temp_srcs[1][1].dr,
                             DrShortWay2(skyc1_srcs[1][1], skyc2_srcs[1][1]))

CutLeavesRa ==
    pc[1] = "loop" /\ pc'[1] = "done"
        => skyc1_srcs' = skyc1_srcs /\ skyc2_srcs' = skyc2_srcs

(* C24: the RA difference that enters dr is the true RA difference of the  *)
(* pair for every candidate pair, also when the two RAs are on opposite    *)
(* sides of 90 or of 270 degrees, and the calculation leaves the ra of the *)
(* reference frame and of the batch as they were.                          *)
C24_ShiftKeepsDifference ==
    /\ []CutByTrueDifference
    /\ [][CutLeavesRa]_vars

-----------------------------------------------------------------------------
(* the batch rows the iteration left without a pair *)
Unpaired(g) == { j \in BatchIndex(g) : PairsOf(g, j) = {} }

(* the reference rows made from measurement i *)
RefRowsOf(df, i) == SelectSeq(df, LAMBDA r : r.id = i)

(* the first identity after those of the running frame and of the forks *)
FirstFresh(g) == MaxSource(sources_df[g]) + Cardinality(Losers(g)) + 1

UnpairedNumbered(g) ==
    /\ \A j \in Unpaired(g) :
          /\ Len(WrittenFor(g, j)) = 1
          /\ Len(RefRowsOf(skyc1_srcs'[g], MeasId(g, epoch'[g], j))) = 1
          /\ RefRowsOf(skyc1_srcs'[g], MeasId(g, epoch'[g], j))[1].source
                = WrittenFor(g, j)[1].source
          /\ WrittenFor(g, j)[1].source \notin Sources(sources_df[g]) \cup ForkIds(g)
          /\ finalise(sources_df'[g])[WrittenFor(g, j)[1].source].new = TRUE
    /\ { WrittenFor(g, j)[1].source : j \in Unpaired(g) }
          = FirstFresh(g)..(FirstFresh(g) + Cardinality(Unpaired(g)) - 1)
    /\ \A j, k \in Unpaired(g) :
          j # k => WrittenFor(g, j)[1].source # WrittenFor(g, k)[1].source

(* C25: the batch rows without a surviving pair get fresh identities, one  *)
(* contiguous block from the maximum of the running frame after the forks  *)
(* plus one; each is appended once to the running frame and once to the    *)
(* reference frame, and its identity is new.                               *)
C25_UnpairedGetFreshBlock ==
    [][\A g \in groups : JustIterated(g) => UnpairedNumbered(g)]_vars

(* iterations on batches of up to MaxBatch + 1 rows: room for a fork and  *)
(* an unpaired row in one batch                                            *)
WideBatches ==
    UNION { { b \in [1..n -> Sky] : \A i, j \in 1..n : i # j => b[i] # b[j] }
            : n \in 1..(MaxBatch + 1) }

WideIterate(g) == epoch[g] < 2 /\ IterateBatches(g, WideBatches)

NextWide ==
    \/ \E g \in groups : Start(g)
    \/ \E g \in groups : WideIterate(g)
    \/ \E g \in groups : Raise(g)
    \/ \E g \in groups : Return(g)

SpecWide == Init /\ [][NextWide]_vars

(* an iteration that forked an identity and numbered an unpaired row after *)
(* the fork                                                                *)
C25_Witness ==
    \E g \in groups :
        /\ epoch[g] = 2
        /\ ForkedInLast(g)
        /\ \E n \in DOMAIN skyc2_srcs[g] :
              /\ \A k \in DOMAIN temp_srcs[g] :
                    skyc2_srcs[g][n].id # MeasId(g, 2, temp_srcs[g][k].index_old_skyc2)
              /\ skyc2_srcs[g][n].source = MaxSource(sources_df[g])
              /\ \E k \in DOMAIN temp_srcs[g] :
                    /\ temp_srcs[g][k].source_skyc1 # temp_srcs[g][k].matched
                    /\ temp_srcs[g][k].source_skyc1 < skyc2_srcs[g][n].source

-----------------------------------------------------------------------------
(* the iteration of g on a batch, idx the nearest reference rows *)
IterationOf(g, batch, idx) ==
    association_iteration(method, sources_df[g], skyc1_srcs[g],
                          prep_skysrc_df(batch, g, epoch[g] + 1, FALSE), idx)

BatchChoices(g, batch) ==
    IF method = "basic"
    THEN NearestChoices(skyc1_srcs[g], prep_skysrc_df(batch, g, epoch[g] + 1, FALSE))
    ELSE { [j \in DOMAIN batch |-> 1] }

(* the rows of frame df that are measurement j of the batch of epoch e *)
AppendedFor(df, g, e, j) == SelectSeq(df, LAMBDA r : r.id = MeasId(g, e, j))

(* the pairs of temp with batch row j *)
PairsIn(temp, j) == { k \in DOMAIN temp : temp[k].index_old_skyc2 = j }

(* outcome r of an iteration of g holds every row of the batch, once for   *)
(* each pair of the row, once if it has none, and the frame it started     *)
(* from                                                                    *)
BatchAppended(g, batch, r) ==
    /\ \A j \in DOMAIN batch :
          /\ Len(AppendedFor(r.sources_df, g, epoch[g] + 1, j))
                = IF PairsIn(r.temp_srcs, j) = {} THEN 1
                  ELSE Cardinality(PairsIn(r.temp_srcs, j))
          /\ \A n \in DOMAIN AppendedFor(r.sources_df, g, epoch[g] + 1, j) :
                /\ AppendedFor(r.sources_df, g, epoch[g] + 1, j)[n].ra
                      = prep_skysrc_df(batch, g, epoch[g] + 1, FALSE)[j].ra
                /\ AppendedFor(r.sources_df, g, epoch[g] + 1, j)[n].dec
                      = prep_skysrc_df(batch, g, epoch[g] + 1, FALSE)[j].dec
                /\ AppendedFor(r.sources_df, g, epoch[g] + 1, j)[n].source >= 1
    /\ \A n \in DOMAIN sources_df[g] : r.sources_df[n] = sources_df[g][n]

(* C26: every measurement of an epoch batch is in the running frame at the *)
(* end of its iteration, whatever the de Ruiter cut, the many-to-many drop *)
(* and the one-to-many fork did to its pairs: once for each surviving pair *)
(* when it is matched, exactly once when it is new.                        *)
C26_BatchRowsAppended ==
    \A g \in groups :
        (pc[g] = "loop" /\ epoch[g] < MaxEpochs /\ method \in Methods) =>
            \A batch \in Batches(Sky) : \A idx \in BatchChoices(g, batch) :
                BatchAppended(g, batch, IterationOf(g, batch, idx))

(* a measurement that was a candidate of a reference row and lost every    *)
(* pair to the de Ruiter cut, appended under an identity of its own        *)
C26_Witness ==
    \E g \in groups :
        /\ method = "deruiter"
        /\ epoch[g] >= 2
        /\ \E n \in DOMAIN sources_df[g] :
              /\ sources_df[g][n].epoch = epoch[g]
              /\ sources_df[g][n].d2d # Zero
              /\ Len(RowsOf(sources_df[g], sources_df[g][n].source)) = 1
              /\ \A k \in DOMAIN temp_srcs[g] :
                    MeasId(g, epoch[g], temp_srcs[g][k].index_old_skyc2)
                        # sources_df[g][n].id

-----------------------------------------------------------------------------
(* the epochs of the rows of the running frame are those processed so far  *)
EpochsProcessed ==
    \A g \in groups :
        Started(g) =>
            { sources_df[g][n].epoch : n \in DOMAIN sources_df[g] } = 1..epoch[g]

(* the first epoch's batch is the initial running and reference frame *)
FirstEpochInitial(g) ==
    (pc[g] = "start" /\ pc'[g] = "loop") =>
        /\ epoch'[g] = 1
        /\ sources_df'[g] # <<>>
        /\ \A n \in DOMAIN sources_df'[g] : sources_df'[g][n].epoch = 1
        /\ skyc1_srcs'[g] = RefRows(sources_df'[g])

(* an iteration appends the batch of the next epoch and nothing later *)
NextEpochAppended(g) ==
    /\ BatchIndex(g) # {}
    /\ \A n \in DOMAIN sources_df'[g] :
          /\ sources_df'[g][n].epoch <= epoch'[g]
          /\ n > Len(sources_df[g]) /\ sources_df'[g][n].epoch = epoch'[g]
                => \E j \in BatchIndex(g) : sources_df'[g][n].id = MeasId(g, epoch'[g], j)

(* the pairs of an iteration are with rows of the reference frame the      *)
(* iteration started from, at the positions aggregated from the running    *)
(* frame it started from                                                   *)
MatchedAgainstPrevious(g) ==
    \A k \in DOMAIN temp_srcs'[g] :
        /\ temp_srcs'[g][k].index_old_skyc1 \in DOMAIN skyc1_srcs[g]
        /\ temp_srcs'[g][k].matched
              = skyc1_srcs[g][temp_srcs'[g][k].index_old_skyc1].source
        /\ RatEq(temp_srcs'[g][k].d2d_pair,
                 Sep2(skyc1_srcs[g][temp_srcs'[g][k].index_old_skyc1],
                      BatchRow(g, temp_srcs'[g][k].index_old_skyc2)))
        /\ MeanConsistent(skyc1_srcs[g][temp_srcs'[g][k].index_old_skyc1],
                          RowsOf(sources_df[g], temp_srcs'[g][k].matched))

(* C27: a group's epochs are processed in ascending order, one iteration   *)
(* for each epoch after the first on the whole batch of the epoch; the     *)
(* first epoch's batch is the initial reference and running frame, and     *)
(* every iteration matches against the reference frame, positions          *)
(* re-aggregated, that the iteration before it produced.                   *)
C27_EpochsInOrder ==
    /\ []EpochsProcessed
    /\ [][\A g \in groups :
             /\ FirstEpochInitial(g)
             /\ JustIterated(g) => NextEpochAppended(g) /\ MatchedAgainstPrevious(g)]_vars

(* a third-epoch pair with an identity whose position was aggregated from  *)
(* two measurements apart                                                  *)
C27_Witness ==
    \E g \in groups :
        /\ epoch[g] = 3
        /\ \E k \in DOMAIN temp_srcs[g] :
              /\ temp_srcs[g][k].d2d_pair.d # 1
              /\ Len(RowsOf(sources_df[g], temp_srcs[g][k].matched)) >= 3

-----------------------------------------------------------------------------
(* no identity is on two rows of the reference frame *)
OneRowPerIdentity ==
    \A g \in groups :
        \A i, k \in DOMAIN skyc1_srcs[g] :
            i # k => skyc1_srcs[g][i].source # skyc1_srcs[g][k].source

(* the reference frame keeps its rows, each with its identity and its      *)
(* measurement                                                             *)
ReferenceGrows(g) ==
    /\ Len(skyc1_srcs[g]) <= Len(skyc1_srcs'[g])
    /\ \A i \in DOMAIN skyc1_srcs[g] :
          /\ skyc1_srcs'[g][i].source = skyc1_srcs[g][i].source
          /\ skyc1_srcs'[g][i].id = skyc1_srcs[g][i].id

(* C28: after every iteration no identity is on two rows of the reference  *)
(* frame, the forks and the many-to-one matches appended included, and the *)
(* reference frame has lost no row and no identity.                        *)
C28_ReferenceOneRowGrows ==
    /\ []OneRowPerIdentity
    /\ [][\A g \in groups : ReferenceGrows(g)]_vars

(* a reference frame that has taken a forked identity in an iteration in   *)
(* which a batch row was matched to two identities                         *)
C28_Witness ==
    \E g \in groups :
        /\ epoch[g] >= 2
        /\ \E k, l \in DOMAIN temp_srcs[g] :
              /\ k # l
              /\ temp_srcs[g][k].index_old_skyc2 = temp_srcs[g][l].index_old_skyc2
        /\ \E k \in DOMAIN temp_srcs[g] :
              /\ temp_srcs[g][k].source_skyc1 # temp_srcs[g][k].matched
              /\ temp_srcs[g][k].source_skyc1 \in Sources(skyc1_srcs[g])
              /\ temp_srcs[g][k].matched \in Sources(skyc1_srcs[g])

-----------------------------------------------------------------------------
(* C29: after every iteration no row of the running frame carries the      *)
(* sentinel identity -1, so the rows the aggregator takes for an identity, *)
(* those with source other than -1, are all the rows of the identity.      *)
C29_NoSentinelInRunningFrame ==
    \A g \in groups :
        Started(g) =>
            /\ \A n \in DOMAIN sources_df[g] : sources_df[g][n].source >= 1
            /\ \A s \in Sources(sources_df[g]) :
                  tmp_srcs_df(sources_df[g], s) = RowsOf(sources_df[g], s)
            /\ \A i \in DOMAIN skyc1_srcs[g] : skyc1_srcs[g][i].source >= 1

(* an iteration that appended a matched row and a row loaded with the      *)
(* sentinel and matched to nothing                                         *)
C29_Witness ==
    \E g \in groups :
        /\ epoch[g] >= 2
        /\ temp_srcs[g] # <<>>
        /\ \E n \in DOMAIN skyc2_srcs[g] :
              \A k \in DOMAIN temp_srcs[g] :
                  skyc2_srcs[g][n].id # MeasId(g, epoch[g], temp_srcs[g][k].index_old_skyc2)

-----------------------------------------------------------------------------
(* the skyreg_group labels of a run: consecutive, with a gap, not from 1   *)
LabelSets == { {1, 2}, {1, 3}, {2, 3} }

InitLabels == \E G \in LabelSets : InitGroups(G)

SpecLabels == InitLabels /\ [][NextPar]_vars

(* the group before g in label order *)
Preceding(g) == CHOOSE p \in groups : p < g /\ \A q \in groups : q < g => q <= p

(* the rows of group g in the merged frame *)
MergedRowsOf(g) == SelectSeq(results.frame, LAMBDA r : r.skyreg_group = g)

RenumberedAfterPreceding(g) ==
    Sources(MergedRowsOf(g))
        = { s + MaxSource(MergedRowsOf(Preceding(g))) : s \in Sources(sources_df[g]) }

(* C30: for any set of group labels the merge completes, and every group   *)
(* after the first in label order is renumbered from the maximum of the    *)
(* renumbered group that precedes it in that order, labels with gaps       *)
(* included.                                                               *)
C30_MergeAnyLabels ==
    (results # NoResults /\ \A g \in groups : pc[g] = "done") =>
        /\ Merged
        /\ \A g \in groups :
              (\E p \in groups : p < g) => RenumberedAfterPreceding(g)

====
